---- MODULE Spec2Model ----
(***************************************************************************)
(* A model of neo/io/nixio.py (NixIO): the mapping of a Neo object graph   *)
(* (Block, Segment, signals, Event, Epoch, SpikeTrain, ChannelIndex, Unit) *)
(* into a NIX file (blocks, groups, data arrays, multi tags, sources,      *)
(* metadata sections) and back.                                            *)
(*                                                                         *)
(* Python values are records tagged by their type; strings on which the    *)
(* code depends character by character (the names of per-channel data      *)
(* arrays, the input of the digest) are sequences of one-character         *)
(* strings.                                                                *)
(***************************************************************************)
EXTENDS Integers, Sequences, FiniteSets, TLC

VARIABLES
    neo,                  \* the Neo objects in memory: object -> its attributes
    uuid,                 \* number of identifiers uuid4() has handed out
    nix_file,             \* the NIX file: [blocks, sections, next]
    mode,                 \* the mode the NixIO has its file open in: "ow" or "ro"
    _block_read_counter,  \* NixIO._block_read_counter
    _neo_map,             \* NixIO._neo_map: NIX name -> kind of the Neo object read
    _signal_map,          \* NixIO._signal_map: signal name -> its data array names
    result,               \* what the last call returned or raised
    synced,               \* per Block: written and not modified since
    sequential,           \* the reader has made read_block() calls only
    hashed,               \* the last _hash_object call: object, graph, digest input
    writes,               \* number of write_block calls made
    edits                 \* number of modifications made to the Neo objects

vars == <<neo, uuid, nix_file, mode, _block_read_counter, _neo_map, _signal_map,
          result, synced, sequential, hashed, writes, edits>>

-----------------------------------------------------------------------------
(* Bounds of the model.                                                    *)

MaxChannels == 11      \* largest channel count of a signal
MaxWrites == 2         \* write_block calls in one behaviour
MaxEdits == 1          \* modifications of the Neo graph in one behaviour
NSamples == 2          \* samples per channel of a signal

-----------------------------------------------------------------------------
(* Python values.                                                          *)

None == [t |-> "None"]
PyStr(s) == [t |-> "str", s |-> s]
PyInt(i) == [t |-> "int", i |-> i]
PyDatetime(ts) == [t |-> "datetime", ts |-> ts]
PyList(items) == [t |-> "list", items |-> items]
\* a pq.Quantity: scalar (mag an integer) or array (mag a sequence)
Quantity(mag, units) == [t |-> "quantity", mag |-> mag, units |-> units]
QArray(mag, units) == [t |-> "qarray", mag |-> mag, units |-> units]
\* a generated NIX name "neo.<type>.<hex>"
NixName(type, n) == [t |-> "name", type |-> type, hex |-> n]

DigitChars == <<"0", "1", "2", "3", "4", "5", "6", "7", "8", "9">>

RECURSIVE Digits(_)
\* str(n) for a non-negative integer, as "{}".format(idx) writes it
Digits(n) ==
    IF n < 10 THEN <<DigitChars[n + 1]>>
    ELSE Digits(n \div 10) \o <<DigitChars[(n % 10) + 1]>>

\* The characters the model uses, in code-point order.
Alphabet == <<" ", ".", "0", "1", "2", "3", "4", "5", "6", "7", "8", "9",
              "@", "N", "a", "b", "e", "n", "o">>

Ord(c) == CHOOSE i \in 1..Len(Alphabet) : Alphabet[i] = c

RECURSIVE StrLess(_, _)
\* Python's < on str: lexicographic by code point, a proper prefix first
StrLess(a, b) ==
    IF b = <<>> THEN FALSE
    ELSE IF a = <<>> THEN TRUE
    ELSE IF Head(a) = Head(b) THEN StrLess(Tail(a), Tail(b))
    ELSE Ord(Head(a)) < Ord(Head(b))

\* the type strings of generated names, in string order
TypeOrder == <<"analogsignal", "block", "channelindex", "epoch", "event",
               "irregularlysampledsignal", "segment", "spiketrain", "unit">>

TypeOrd(ty) == CHOOSE i \in 1..Len(TypeOrder) : TypeOrder[i] = ty

\* < on generated names "neo.<type>.<hex>": the hex part has a fixed length
NameLess(a, b) ==
    IF a.type # b.type THEN TypeOrd(a.type) < TypeOrd(b.type)
    ELSE a.hex < b.hex

\* the name of a data array "<base>.<suffix>"
DAName(base, suffix) == [base |-> base, suffix |-> suffix]

\* < on data array names "<base>.<suffix>" as strings
DANameLess(a, b) ==
    IF a.base # b.base THEN NameLess(a.base, b.base)
    ELSE StrLess(a.suffix, b.suffix)

\* Python's str(value)
Str(v) ==
    CASE v.t = "None" -> <<"N", "o", "n", "e">>
      [] v.t = "str" -> v.s
      [] v.t = "int" -> Digits(v.i)
      [] v.t = "datetime" -> <<"@">> \o Digits(v.ts)
      [] v.t = "quantity" -> Digits(v.mag) \o <<" ", v.units>>
      [] v.t = "name" -> <<"neo.", v.type, ".">> \o Digits(v.hex)
      [] OTHER -> <<"?">>

\* stringify(value): None stays None, anything else becomes its str
stringify(value) == IF value = None THEN None ELSE PyStr(Str(value))

-----------------------------------------------------------------------------
(* Sequences.                                                              *)

Range(s) == {s[i] : i \in 1..Len(s)}

RECURSIVE SeqFilter(_, _)
\* the elements of s that are in the set keep, in order
SeqFilter(s, keep) ==
    IF s = <<>> THEN <<>>
    ELSE IF Head(s) \in keep THEN <<Head(s)>> \o SeqFilter(Tail(s), keep)
    ELSE SeqFilter(Tail(s), keep)

RECURSIVE Flatten(_)
Flatten(ss) == IF ss = <<>> THEN <<>> ELSE Head(ss) \o Flatten(Tail(ss))

\* np.transpose of a matrix given as a sequence of rows
Transpose(m) ==
    IF m = <<>> THEN <<>>
    ELSE [c \in 1..Len(m[1]) |-> [r \in 1..Len(m) |-> m[r][c]]]

-----------------------------------------------------------------------------
(* The Neo objects.  An object is known by its Python identity; `neo` maps *)
(* it to its attributes.  The containers hold object identities.           *)

Blocks == {"blk1", "blk2"}
Segments == {"seg1", "seg2", "seg3"}
Objects == Blocks \cup Segments \cup
           {"asig1", "isig1", "ev1", "ep1", "st1", "chx1", "unit1"}

\* the annotations the objects of the graph start with: {"a": 1}
NoAnnotations == ("a" :> PyInt(1))

\* a list whose second item is a list: [1, [2]]
NestedList == PyList(<<PyInt(1), PyList(<<PyInt(2)>>)>>)

\* the payload of a signal: NSamples rows of nchan channels, all different
SignalData(nchan, base) ==
    [r \in 1..NSamples |-> [c \in 1..nchan |-> base + 100 * r + c]]

Block(name, segments, channel_indexes) ==
    [kind |-> "Block", name |-> name, description |-> None,
     annotations |-> NoAnnotations, rec_datetime |-> None,
     file_datetime |-> None, segments |-> segments,
     channel_indexes |-> channel_indexes]

Segment(name, asigs, isigs, events, epochs, sts) ==
    [kind |-> "Segment", name |-> name, description |-> None,
     annotations |-> NoAnnotations, rec_datetime |-> None,
     file_datetime |-> None, analogsignals |-> asigs,
     irregularlysampledsignals |-> isigs, events |-> events,
     epochs |-> epochs, spiketrains |-> sts]

AnalogSignal(name, signal) ==
    [kind |-> "AnalogSignal", name |-> name, description |-> None,
     annotations |-> NoAnnotations, signal |-> signal, units |-> "mV",
     t_start |-> Quantity(1, "s"), sampling_period |-> Quantity(5, "ms")]

IrregularlySampledSignal(name, signal) ==
    [kind |-> "IrregularlySampledSignal", name |-> name,
     description |-> None, annotations |-> NoAnnotations,
     signal |-> signal, units |-> "mV",
     times |-> QArray([r \in 1..NSamples |-> 3 * r], "s")]

Event(name) ==
    [kind |-> "Event", name |-> name, description |-> None,
     annotations |-> NoAnnotations, times |-> QArray(<<1, 4, 9>>, "s"),
     labels |-> <<PyStr(<<"a">>), PyStr(<<"b">>), PyStr(<<"a", "b">>)>>]

Epoch(name) ==
    [kind |-> "Epoch", name |-> name, description |-> None,
     annotations |-> NoAnnotations, times |-> QArray(<<1, 4>>, "s"),
     durations |-> QArray(<<2, 3>>, "s"),
     labels |-> <<PyStr(<<"a">>), PyStr(<<"b">>)>>]

SpikeTrain(name) ==
    [kind |-> "SpikeTrain", name |-> name, description |-> None,
     annotations |-> NoAnnotations, times |-> QArray(<<2, 5>>, "s"),
     units |-> "s", t_start |-> Quantity(0, "s"), t_stop |-> Quantity(9, "s"),
     waveforms |-> None, sampling_period |-> Quantity(1, "ms"),
     left_sweep |-> None]

ChannelIndex(name, index, asigs, isigs, units) ==
    [kind |-> "ChannelIndex", name |-> name, description |-> None,
     annotations |-> NoAnnotations, index |-> index,
     channel_names |-> [i \in 1..Len(index) |-> PyStr(<<"a">>)],
     channel_ids |-> [i \in 1..Len(index) |-> i],
     coordinates |-> QArray([i \in 1..Len(index) |-> <<i, 0>>], "mm"),
     analogsignals |-> asigs,
     irregularlysampledsignals |-> isigs, units |-> units]

Unit(name, sts) ==
    [kind |-> "Unit", name |-> name, description |-> None,
     annotations |-> NoAnnotations, spiketrains |-> sts]

\* The graphs a behaviour starts from: blk1 has two segments and blk2 one;
\* asig1 has nchan channels and, when shared, is attached to both segments
\* of blk1; with withchx, blk1 has the channel index chx1, which groups asig1
\* and owns unit1, to which st1 belongs.
InitialGraph(nchan, shared, withchx, name2) ==
    [o \in Objects |->
        CASE o = "blk1" ->
               Block(PyStr(<<"a">>), <<"seg1", "seg2">>,
                     IF withchx THEN <<"chx1">> ELSE <<>>)
          [] o = "blk2" -> Block(name2, <<"seg3">>, <<>>)
          [] o = "seg1" ->
               Segment(PyStr(<<"a">>), <<"asig1">>, <<"isig1">>, <<"ev1">>,
                       <<"ep1">>, <<"st1">>)
          [] o = "seg2" ->
               Segment(None, IF shared THEN <<"asig1">> ELSE <<>>, <<>>,
                       <<>>, <<>>, <<>>)
          [] o = "seg3" -> Segment(PyStr(<<>>), <<>>, <<>>, <<>>, <<>>, <<>>)
          [] o = "asig1" -> AnalogSignal(PyStr(<<"a">>), SignalData(nchan, 0))
          [] o = "isig1" ->
               IrregularlySampledSignal(None, SignalData(2, 50))
          [] o = "ev1" -> Event(PyStr(<<"a">>))
          [] o = "ep1" -> Epoch(PyStr(<<"b">>))
          [] o = "st1" -> SpikeTrain(None)
          [] o = "chx1" ->
               ChannelIndex(PyStr(<<"a">>), [i \in 1..nchan |-> i - 1],
                            <<"asig1">>, <<>>, <<"unit1">>)
          [] o = "unit1" -> Unit(PyStr(<<"b">>), <<"st1">>)]

\* obj.annotate(nix_name=...)
annotate(obj, key, value) ==
    [obj EXCEPT !.annotations = (key :> value) @@ obj.annotations]

-----------------------------------------------------------------------------
(* The NIX file.  nix_file.blocks is the sequence of blocks in creation    *)
(* order; a block holds its groups, data arrays, multi tags and sources.   *)
(* nix_file.sections maps the id of a metadata section to the section;     *)
(* every node created gets the next id, so a node deleted and created      *)
(* again under the same name is another node.                              *)
(*                                                                         *)
(* While a call writes, it works on a record W: the block being written    *)
(* (blk), the other blocks (others), the sections, the next node id, the   *)
(* Neo objects (the writers annotate them), the identifier generator, the  *)
(* signal map, the id of the node made last (last) and the exception       *)
(* raised, if any (err).                                                   *)

NoError == "ok"

Names(nodes) == {nodes[i].name : i \in 1..Len(nodes)}

\* the position of the node called name in a container, 0 when absent
IndexOf(nodes, name) ==
    IF name \in Names(nodes)
    THEN CHOOSE i \in 1..Len(nodes) : nodes[i].name = name
    ELSE 0

NoProps == [k \in {} |-> None]

\* parent.create_section(name, type); parent 0 is the file itself
create_section(W, parent, name, type) ==
    [W EXCEPT !.sections = (W.next :> [name |-> name, type |-> type,
                                       parent |-> parent, props |-> NoProps])
                           @@ @,
              !.last = W.next,
              !.next = @ + 1]

\* section[key] = values, and section.props[key].unit = unit
SetProp(W, sec, key, values, unit) ==
    [W EXCEPT !.sections[sec].props =
                  (key :> [values |-> values, unit |-> unit]) @@ @]

RECURSIVE ItemsOK(_)
\* no item of a list is itself iterable (a list, a string, an array)
ItemsOK(items) ==
    IF items = <<>> THEN TRUE
    ELSE Head(items).t \in {"int", "quantity", "None", "datetime"}
         /\ ItemsOK(Tail(items))

\* the unit the loop over a list's items leaves: that of its last Quantity
ListUnit(items) ==
    LET qs == {i \in 1..Len(items) : items[i].t = "quantity"}
    IN IF qs = {} THEN ""
       ELSE items[CHOOSE i \in qs : \A j \in qs : j <= i].units

ItemValue(item) == IF item.t = "quantity" THEN PyInt(item.mag) ELSE item

\* a _write_property that wrote the items it had seen before the unsupported
\* one
_write_property_partial(W, sec, name, v) ==
    IF v.t = "list" /\ ~ItemsOK(v.items)
    THEN SetProp([W EXCEPT !.warnings = @ + 1], sec, name,
                 <<ItemValue(v.items[1])>>, "")
    ELSE SetProp(W, sec, name, <<v>>, "")

\* _write_property(section, name, v): the property is written, except for a
\* list holding an iterable item, for which a warning is logged and nothing
\* is written
_write_property(W, sec, name, v) ==
    CASE v.t = "qarray" ->
           SetProp(W, sec, name, [i \in 1..Len(v.mag) |-> PyInt(v.mag[i])],
                   v.units)
      [] v.t = "quantity" -> SetProp(W, sec, name, <<PyInt(v.mag)>>, v.units)
      [] v.t = "datetime" -> SetProp(W, sec, name, <<PyInt(v.ts)>>, "")
      [] v.t = "str" -> SetProp(W, sec, name, <<v>>, "")
      [] v.t = "name" -> SetProp(W, sec, name, <<v>>, "")
      [] v.t = "list" ->
           IF ItemsOK(v.items)
           THEN SetProp(W, sec, name,
                        [i \in 1..Len(v.items) |-> ItemValue(v.items[i])],
                        ListUnit(v.items))
           ELSE [W EXCEPT !.warnings = @ + 1]
      [] OTHER -> SetProp(W, sec, name, <<v>>, "")

\* the annotation keys of the model, as sorted() orders them
AnnotationKeys == <<"a", "k", "nix_name">>

RECURSIVE WriteAnnotations(_, _, _, _)
\* for k, v in annotations.items(): self._write_property(metadata, k, v)
WriteAnnotations(W, sec, annotations, keys) ==
    IF keys = <<>> THEN W
    ELSE WriteAnnotations(
             IF Head(keys) \in DOMAIN annotations
             THEN _write_property(W, sec, Head(keys), annotations[Head(keys)])
             ELSE W,
             sec, annotations, Tail(keys))

\* uuid4().hex: an identifier never handed out before
_generate_nix_name(W) == W.uuid + 1

\* a writer that generated an identifier at every write, whether or not the
\* object has one: what stable identity excludes
RegenerateNixName(W, obj, type) ==
    [W EXCEPT !.neo[obj] = annotate(@, "nix_name",
                                    NixName(type, _generate_nix_name(W))),
              !.uuid = _generate_nix_name(W)]

\* if "nix_name" in obj.annotations: reuse it; else generate one and
\* obj.annotate(nix_name=nix_name)
EnsureNixName(W, obj, type) ==
    IF "nix_name" \in DOMAIN W.neo[obj].annotations THEN W
    ELSE [W EXCEPT !.neo[obj] = annotate(@, "nix_name",
                                         NixName(type, _generate_nix_name(W))),
                   !.uuid = _generate_nix_name(W)]

NixNameOf(W, obj) == W.neo[obj].annotations["nix_name"]

\* neoname = obj.name if obj.name is not None else ""
NeoName(obj) == IF obj.name = None THEN PyStr(<<>>) ELSE obj.name

\* the name, the definition and the annotations every writer stores
WriteCommon(W, sec, obj) ==
    WriteAnnotations(SetProp(W, sec, "neo_name", <<NeoName(obj)>>, ""),
                     sec, obj.annotations, AnnotationKeys)

\* calculate_timestamp(dt)
calculate_timestamp(dt) == dt.ts

-----------------------------------------------------------------------------
(* Nodes of a block.                                                       *)

SignalTypes == {"neo.analogsignal", "neo.irregularlysampledsignal"}

\* nixblock.create_data_array(name, type, data=data)
create_data_array(W, name, type, data) ==
    [W EXCEPT !.blk.data_arrays =
                  Append(@, [name |-> name, id |-> W.next, type |-> type,
                             definition |-> None, unit |-> "", metadata |-> 0,
                             data |-> data, dims |-> <<>>, sources |-> <<>>]),
              !.last = W.next,
              !.next = @ + 1]

\* nixblock.create_multi_tag(name, type, positions)
create_multi_tag(W, name, type, positions) ==
    [W EXCEPT !.blk.multi_tags =
                  Append(@, [name |-> name, id |-> W.next, type |-> type,
                             definition |-> None, metadata |-> 0,
                             positions |-> positions, extents |-> None,
                             references |-> <<>>, sources |-> <<>>,
                             features |-> <<>>]),
              !.last = W.next,
              !.next = @ + 1]

\* a source node, as create_source(name, type) makes it
SourceNode(W, name, type) ==
    [name |-> name, id |-> W.next, type |-> type, definition |-> None,
     metadata |-> 0, sources |-> <<>>]

\* the data array of the block that was created last
LastDA(W) == Len(W.blk.data_arrays)
LastMT(W) == Len(W.blk.multi_tags)

SampledDimension(interval, unit, offset) ==
    [kind |-> "sampled", sampling_interval |-> interval, unit |-> unit,
     offset |-> offset, label |-> "time"]

RangeDimension(ticks, unit) ==
    [kind |-> "range", ticks |-> ticks, unit |-> unit, label |-> "time"]

SetDimension(labels) == [kind |-> "set", labels |-> labels]

\* units_to_string(pqunit): the model's units have scaling 1
units_to_string(pqunit) == pqunit

\* quantity.rescale(unit).magnitude.item()
Rescale(q, unit) ==
    IF q.units = unit THEN q.mag
    ELSE IF q.units = "s" /\ unit = "ms" THEN q.mag * 1000
    ELSE q.mag

RECURSIVE ExistingDAs(_, _, _)
\* for idx in itertools.count(): collect "<nix_name>.<idx>" until one is
\* missing from the container
ExistingDAs(names, nix_name, idx) ==
    IF DAName(nix_name, Digits(idx)) \in names
    THEN <<DAName(nix_name, Digits(idx))>> \o ExistingDAs(names, nix_name, idx + 1)
    ELSE <<>>

-----------------------------------------------------------------------------
(* The leaf writers.  g is the position of the segment's group in the      *)
(* block.                                                                  *)

\* a writer that gave every data array of a signal metadata of its own
DescribeApart(W, g, sec, signal, dim) ==
    [W EXCEPT !.blk.data_arrays[LastDA(W)] =
                  [@ EXCEPT !.metadata = sec + LastDA(W) - 1,
                            !.definition = signal.description,
                            !.unit = units_to_string(signal.units),
                            !.dims = <<dim>>],
              !.blk.groups[g].data_arrays = Append(@, W.blk.data_arrays[LastDA(W)].name)]

\* the data array created last gets its attributes and is linked in group g
Describe(W, g, sec, signal, dim) ==
    [W EXCEPT !.blk.data_arrays[LastDA(W)] =
                  [@ EXCEPT !.metadata = sec,
                            !.definition = signal.description,
                            !.unit = units_to_string(signal.units),
                            !.dims = <<dim>>],
              !.blk.groups[g].data_arrays = Append(@, W.blk.data_arrays[LastDA(W)].name)]

RECURSIVE WriteAnalogRows(_, _, _, _, _, _, _)
\* the loop of _write_analogsignal over the transposed data
WriteAnalogRows(W, g, nix_name, sec, anasig, data, idx) ==
    IF idx >= Len(data) \/ W.err # NoError THEN W
    ELSE
      LET sp == anasig.sampling_period
          dim == SampledDimension(sp.mag, units_to_string(sp.units),
                                  Rescale(anasig.t_start,
                                          units_to_string(sp.units)))
      IN WriteAnalogRows(
             SetProp(Describe(create_data_array(W, DAName(nix_name, Digits(idx)),
                                                "neo.analogsignal",
                                                data[idx + 1]),
                              g, sec, anasig, dim),
                     sec, "t_start", <<PyInt(anasig.t_start.mag)>>,
                     units_to_string(anasig.t_start.units)),
             g, nix_name, sec, anasig, data, idx + 1)

\* self._signal_map[nix_name] = nix_data_arrays
MapSignal(W, nix_name, nchan) ==
    [W EXCEPT !.sigmap = (nix_name :> [i \in 1..nchan |->
                                           DAName(nix_name, Digits(i - 1))]) @@ @]

\* _write_analogsignal(anasig, nixblock, nixgroup), the signal having its
\* nix_name
WriteAnalogNamed(W, obj, g) ==
    LET nix_name == NixNameOf(W, obj)
        anasig == W.neo[obj]
        sec == W.next
    IN IF DAName(nix_name, <<"0">>) \in Names(W.blk.data_arrays)
       THEN \* the signal is in several segments: link its data arrays
            [W EXCEPT !.blk.groups[g].data_arrays =
                          @ \o ExistingDAs(Names(W.blk.data_arrays), nix_name, 0)]
       ELSE MapSignal(
                WriteCommon(
                    WriteAnalogRows(
                        create_section(W, W.blk.groups[g].metadata, nix_name,
                                       "neo.analogsignal.metadata"),
                        g, nix_name, sec, anasig, Transpose(anasig.signal), 0),
                    sec, anasig),
                nix_name, Len(Transpose(anasig.signal)))

\* _write_analogsignal(anasig, nixblock, nixgroup)
_write_analogsignal(W0, obj, g) ==
    WriteAnalogNamed(EnsureNixName(W0, obj, "analogsignal"), obj, g)

RECURSIVE WriteIrregularRows(_, _, _, _, _, _, _)
\* the loop of _write_irregularlysampledsignal over the transposed data
WriteIrregularRows(W, g, nix_name, sec, irsig, data, idx) ==
    IF idx >= Len(data) \/ W.err # NoError THEN W
    ELSE WriteIrregularRows(
             Describe(create_data_array(W, DAName(nix_name, Digits(idx)),
                                        "neo.irregularlysampledsignal",
                                        data[idx + 1]),
                      g, sec, irsig,
                      RangeDimension(irsig.times.mag,
                                     units_to_string(irsig.times.units))),
             g, nix_name, sec, irsig, data, idx + 1)

\* _write_irregularlysampledsignal(irsig, nixblock, nixgroup), the signal
\* having its nix_name
WriteIrregularNamed(W, obj, g) ==
    LET nix_name == NixNameOf(W, obj)
        irsig == W.neo[obj]
        sec == W.next
    IN IF DAName(nix_name, <<"0">>) \in Names(W.blk.data_arrays)
       THEN [W EXCEPT !.blk.groups[g].data_arrays =
                          @ \o ExistingDAs(Names(W.blk.data_arrays), nix_name, 0)]
       ELSE MapSignal(
                WriteCommon(
                    WriteIrregularRows(
                        create_section(W, W.blk.groups[g].metadata, nix_name,
                                       "neo.irregularlysampledsignal.metadata"),
                        g, nix_name, sec, irsig, Transpose(irsig.signal), 0),
                    sec, irsig),
                nix_name, Len(Transpose(irsig.signal)))

\* _write_irregularlysampledsignal(irsig, nixblock, nixgroup)
_write_irregularlysampledsignal(W0, obj, g) ==
    WriteIrregularNamed(EnsureNixName(W0, obj, "irregularlysampledsignal"),
                        obj, g)

\* the signal data arrays linked in a group, in the group's order
GroupSignalDAs(W, g) ==
    LET das == W.blk.groups[g].data_arrays
        isSignal(n) == W.blk.data_arrays[IndexOf(W.blk.data_arrays, n)].type
                       \in SignalTypes
    IN SeqFilter(das, {n \in Range(das) : isSignal(n)})

\* a writer that took no multi tag for written already
NeverInMultiTags(W, nix_name) == FALSE

\* nix_name in nixblock.multi_tags: the event, epoch or spike train is in
\* several segments and was written for an earlier one
InMultiTags(W, nix_name) == nix_name \in Names(W.blk.multi_tags)

\* the metadata section of the multi tag created last
TagSection(W) == W.blk.multi_tags[LastMT(W)].metadata

\* the data array created last gets its unit
WithUnit(W, unit) ==
    [W EXCEPT !.blk.data_arrays[LastDA(W)].unit = units_to_string(unit)]

\* the multi tag created last gets the section created last as its metadata
WithMetadata(W) == [W EXCEPT !.blk.multi_tags[LastMT(W)].metadata = W.last]

\* the group created last gets the section created last as its metadata
WithGroupMetadata(W) ==
    [W EXCEPT !.blk.groups[Len(W.blk.groups)].metadata = W.last]

\* what _write_event and _write_spiketrain share: the times data array, the
\* multi tag on it and the tag's metadata section
CreateTag(W, g, nix_name, type, tagged) ==
    WithMetadata(
        create_section(
            create_multi_tag(
                WithUnit(create_data_array(W, DAName(nix_name, <<"times">>),
                                           "neo." \o type \o ".times",
                                           tagged.times.mag),
                         tagged.times.units),
                nix_name, "neo." \o type, DAName(nix_name, <<"times">>)),
            W.blk.groups[g].metadata, nix_name, "neo." \o type \o ".metadata"))

\* nixgroup.multi_tags.append(nixmt), then reference every signal data
\* array linked in the group
LinkAndReference(W, g, nix_name) ==
    [W EXCEPT !.blk.groups[g].multi_tags = Append(@, nix_name),
              !.blk.multi_tags[IndexOf(W.blk.multi_tags, nix_name)].references =
                  @ \o GroupSignalDAs(W, g)]

\* _write_event(event, nixblock, nixgroup)
_write_event(W0, obj, g) ==
    LET Named(W) ==
          LET nix_name == NixNameOf(W, obj)
              event == W.neo[obj]
              Labelled(V) ==
                  [V EXCEPT !.blk.data_arrays[LastDA(V)].dims =
                                Append(@, SetDimension(event.labels)),
                            !.blk.multi_tags[LastMT(V)].definition =
                                event.description]
              Common(V) == WriteCommon(V, TagSection(V), event)
          IN IF InMultiTags(W, nix_name)
             THEN \* the event is in several segments: link the tag and return
                  [W EXCEPT !.blk.groups[g].multi_tags = Append(@, nix_name)]
             ELSE LinkAndReference(
                      Common(Labelled(CreateTag(W, g, nix_name, "event", event))),
                      g, nix_name)
    IN Named(EnsureNixName(W0, obj, "event"))

\* _write_epoch(epoch, nixblock, nixgroup)
_write_epoch(W0, obj, g) ==
    LET Named(W) ==
          LET nix_name == NixNameOf(W, obj)
              epoch == W.neo[obj]
              \* the durations array is the last one, the times array the
              \* one before it
              Extents(V) ==
                  [V EXCEPT !.blk.data_arrays[LastDA(V)].unit =
                                units_to_string(epoch.durations.units),
                            !.blk.multi_tags[LastMT(V)].extents =
                                DAName(nix_name, <<"durations">>)]
              Labelled(V) ==
                  [V EXCEPT !.blk.multi_tags[LastMT(V)].metadata = V.last,
                            !.blk.data_arrays[LastDA(V) - 1].dims =
                                Append(@, SetDimension(epoch.labels)),
                            !.blk.multi_tags[LastMT(V)].definition =
                                epoch.description]
              Common(V) == WriteCommon(V, TagSection(V), epoch)
          IN IF InMultiTags(W, nix_name)
             THEN [W EXCEPT !.blk.groups[g].multi_tags = Append(@, nix_name)]
             ELSE LinkAndReference(
                      Common(Labelled(
                          create_section(
                              Extents(create_data_array(
                                  create_multi_tag(
                                      WithUnit(create_data_array(
                                                   W, DAName(nix_name, <<"times">>),
                                                   "neo.epoch.times",
                                                   epoch.times.mag),
                                               epoch.times.units),
                                      nix_name, "neo.epoch",
                                      DAName(nix_name, <<"times">>)),
                                  DAName(nix_name, <<"durations">>),
                                  "neo.epoch.durations", epoch.durations.mag)),
                              W.blk.groups[g].metadata, nix_name,
                              "neo.epoch.metadata"))),
                      g, nix_name)
    IN Named(EnsureNixName(W0, obj, "epoch"))

\* the waveform part of _write_spiketrain
WriteWaveforms(W, mt, nix_name, spiketrain) ==
    LET wfname == DAName(nix_name, <<"waveforms">>)
        sp == spiketrain.sampling_period
        Finish(V) ==
            [V EXCEPT !.blk.data_arrays[LastDA(V)].unit =
                          units_to_string(spiketrain.waveforms.units),
                      !.blk.data_arrays[LastDA(V)].metadata = V.last,
                      !.blk.data_arrays[LastDA(V)].dims =
                          <<SetDimension(<<>>), SetDimension(<<>>),
                            [SampledDimension(sp.mag, units_to_string(sp.units), 0)
                                EXCEPT !.offset = None]>>,
                      !.blk.multi_tags[mt].features = Append(@, wfname)]
    IN Finish(create_section(
                  create_data_array(W, wfname, "neo.waveforms",
                                    spiketrain.waveforms.mag),
                  W.blk.multi_tags[mt].metadata, wfname,
                  "neo.waveforms.metadata"))

\* _write_spiketrain(spiketrain, nixblock, nixgroup): left_sweep is written
\* on the metadata of the waveform array, a name bound only when there are
\* waveforms
_write_spiketrain(W0, obj, g) ==
    LET Named(W) ==
          LET nix_name == NixNameOf(W, obj)
              spiketrain == W.neo[obj]
              Defined(V) ==
                  [V EXCEPT !.blk.multi_tags[LastMT(V)].definition =
                                spiketrain.description]
              Props(V) ==
                  WriteAnnotations(
                      _write_property(
                          _write_property(
                              SetProp(V, TagSection(V), "neo_name",
                                      <<NeoName(spiketrain)>>, ""),
                              TagSection(V), "t_start", spiketrain.t_start),
                          TagSection(V), "t_stop", spiketrain.t_stop),
                      TagSection(V), spiketrain.annotations, AnnotationKeys)
              Linked(V) ==
                  [V EXCEPT !.blk.groups[g].multi_tags = Append(@, nix_name)]
              Waveforms(V) ==
                  IF spiketrain.waveforms # None
                  THEN WriteWaveforms(V, LastMT(V), nix_name, spiketrain)
                  ELSE V
              LeftSweep(V) ==
                  IF spiketrain.left_sweep = None THEN V
                  ELSE IF spiketrain.waveforms = None
                  THEN [V EXCEPT !.err = "UnboundLocalError"]
                  ELSE _write_property(
                           V, V.blk.data_arrays[LastDA(V)].metadata,
                           "left_sweep", spiketrain.left_sweep)
          IN IF InMultiTags(W, nix_name)
             THEN [W EXCEPT !.blk.groups[g].multi_tags = Append(@, nix_name)]
             ELSE LeftSweep(Waveforms(Linked(Props(Defined(
                      CreateTag(W, g, nix_name, "spiketrain", spiketrain))))))
    IN Named(EnsureNixName(W0, obj, "spiketrain"))

-----------------------------------------------------------------------------
(* Segments, channel indexes and units.                                    *)

RECURSIVE WriteLeaves(_, _, _)
\* the five loops of _write_segment, over the children <<object, type>> in
\* the order of the loops; an exception ends the call
WriteLeaves(W, leaves, g) ==
    IF leaves = <<>> \/ W.err # NoError THEN W
    ELSE LET obj == Head(leaves)[1]
             kind == Head(leaves)[2]
         IN WriteLeaves(
                CASE kind = "analogsignal" -> _write_analogsignal(W, obj, g)
                  [] kind = "irregularlysampledsignal" ->
                       _write_irregularlysampledsignal(W, obj, g)
                  [] kind = "event" -> _write_event(W, obj, g)
                  [] kind = "epoch" -> _write_epoch(W, obj, g)
                  [] kind = "spiketrain" -> _write_spiketrain(W, obj, g),
                Tail(leaves), g)

\* the children of a segment, each with the type its writer names it by
Leaves(segment) ==
    LET Tagged(objs, kind) == [i \in 1..Len(objs) |-> <<objs[i], kind>>]
    IN Tagged(segment.analogsignals, "analogsignal")
       \o Tagged(segment.irregularlysampledsignals, "irregularlysampledsignal")
       \o Tagged(segment.events, "event")
       \o Tagged(segment.epochs, "epoch")
       \o Tagged(segment.spiketrains, "spiketrain")

\* if obj.file_datetime: metadata["file_datetime"] = obj.file_datetime
WriteDatetimes(W, sec, obj) ==
    IF obj.file_datetime # None
    THEN SetProp(W, sec, "file_datetime", <<obj.file_datetime>>, "")
    ELSE W

\* nixblock.create_group(name, "neo.segment")
create_group(W, name) ==
    [W EXCEPT !.blk.groups =
                  Append(@, [name |-> name, id |-> W.next,
                             type |-> "neo.segment", definition |-> None,
                             metadata |-> 0, created_at |-> PyInt(W.next),
                             data_arrays |-> <<>>, multi_tags |-> <<>>]),
              !.next = @ + 1]

\* _write_segment(segment, nixblock)
_write_segment(W0, obj) ==
    LET Named(W) ==
          LET nix_name == NixNameOf(W, obj)
              segment == W.neo[obj]
              Group(V) ==
                  IF nix_name \in Names(V.blk.groups) THEN V
                  ELSE WithGroupMetadata(
                           create_section(create_group(V, nix_name),
                                          V.blk.metadata, nix_name,
                                          "neo.segment.metadata"))
              g(V) == IndexOf(V.blk.groups, nix_name)
              Attributes(V) ==
                  WriteAnnotations(
                      WriteDatetimes(
                          SetProp([V EXCEPT
                                      !.blk.groups[g(V)].definition =
                                          segment.description,
                                      !.blk.groups[g(V)].created_at =
                                          IF segment.rec_datetime # None
                                          THEN PyInt(calculate_timestamp(
                                                         segment.rec_datetime))
                                          ELSE @],
                                  V.blk.groups[g(V)].metadata, "neo_name",
                                  <<NeoName(segment)>>, ""),
                          V.blk.groups[g(V)].metadata, segment),
                      V.blk.groups[g(V)].metadata, segment.annotations,
                      AnnotationKeys)
              Children(V) == WriteLeaves(V, Leaves(segment), g(V))
          IN Children(Attributes(Group(W)))
    IN Named(EnsureNixName(W0, obj, "segment"))

\* parent.create_source(name, type) on the source at position x of the
\* block, with its metadata section
create_child_source(W, x, name, type) ==
    LET Created(V) ==
            [V EXCEPT !.blk.sources[x].sources =
                          Append(@, SourceNode(V, name, type)),
                      !.next = @ + 1]
        Described(V) ==
            [V EXCEPT !.blk.sources[x].sources[
                           Len(V.blk.sources[x].sources)].metadata = V.last]
    IN Described(create_section(Created(W), W.blk.sources[x].metadata, name,
                                type \o ".metadata"))

\* _write_unit(neounit, nixchxsource): x is the position of the channel
\* index's source in the block
_write_unit(W0, obj, x) ==
    LET Named(W) ==
          LET nix_name == NixNameOf(W, obj)
              neounit == W.neo[obj]
              Source(V) ==
                  IF nix_name \in Names(V.blk.sources[x].sources) THEN V
                  ELSE create_child_source(V, x, nix_name, "neo.unit")
              u(V) == IndexOf(V.blk.sources[x].sources, nix_name)
              Attributes(V) ==
                  WriteCommon([V EXCEPT !.blk.sources[x].sources[u(V)].definition =
                                            neounit.description],
                              V.blk.sources[x].sources[u(V)].metadata, neounit)
          IN Attributes(Source(W))
    IN Named(EnsureNixName(W0, obj, "unit"))

RECURSIVE WriteUnits(_, _, _)
WriteUnits(W, objs, x) ==
    IF objs = <<>> \/ W.err # NoError THEN W
    ELSE WriteUnits(_write_unit(W, Head(objs), x), Tail(objs), x)

\* the name of the source of one channel: "<nix_name>.ChannelIndex<idx>"
ChannelName(nix_name, idx) == DAName(nix_name, <<"ChannelIndex">> \o Digits(idx))

\* the body of the loop of _write_channelindex, for the channel at idx
WriteChannel(W, x, nix_name, chx, idx) ==
    LET channame == ChannelName(nix_name, idx)
        Source(V) ==
            IF channame \in Names(V.blk.sources[x].sources) THEN V
            ELSE create_child_source(V, x, channame, "neo.channelindex")
        c(V) == IndexOf(V.blk.sources[x].sources, channame)
        chanmd(V) == V.blk.sources[x].sources[c(V)].metadata
        Index(V) ==
            SetProp([V EXCEPT !.blk.sources[x].sources[c(V)].definition =
                                  V.blk.sources[x].definition],
                    chanmd(V), "index", <<PyInt(chx.index[idx + 1])>>, "")
        Name(V) ==
            IF Len(chx.channel_names) > 0
            THEN SetProp(V, chanmd(V), "neo_name",
                         <<stringify(chx.channel_names[idx + 1])>>, "")
            ELSE V
        Id(V) ==
            IF Len(chx.channel_ids) > 0
            THEN SetProp(V, chanmd(V), "channel_id",
                         <<PyInt(chx.channel_ids[idx + 1])>>, "")
            ELSE V
        Coordinates(V) ==
            IF chx.coordinates # None
            THEN SetProp(V, chanmd(V), "coordinates",
                         [i \in 1..Len(chx.coordinates.mag[idx + 1]) |->
                              PyInt(chx.coordinates.mag[idx + 1][i])],
                         chx.coordinates.units)
            ELSE V
    IN Coordinates(Id(Name(Index(Source(W)))))

RECURSIVE WriteChannels(_, _, _, _, _)
\* the loop of _write_channelindex over chx.index
WriteChannels(W, x, nix_name, chx, idx) ==
    IF idx >= Len(chx.index) \/ W.err # NoError THEN W
    ELSE WriteChannels(WriteChannel(W, x, nix_name, chx, idx), x, nix_name,
                       chx, idx + 1)

\* _write_channelindex(chx, nixblock)
_write_channelindex(W0, obj) ==
    LET Named(W) ==
          LET nix_name == NixNameOf(W, obj)
              chx == W.neo[obj]
              Created(V) ==
                  [V EXCEPT !.blk.sources =
                                Append(@, SourceNode(V, nix_name,
                                                     "neo.channelindex")),
                            !.next = @ + 1]
              Described(V) ==
                  [V EXCEPT !.blk.sources[Len(V.blk.sources)].metadata = V.last]
              Source(V) ==
                  IF nix_name \in Names(V.blk.sources) THEN V
                  ELSE Described(create_section(Created(V), V.blk.metadata,
                                                nix_name,
                                                "neo.channelindex.metadata"))
              x(V) == IndexOf(V.blk.sources, nix_name)
              Attributes(V) ==
                  WriteCommon([V EXCEPT !.blk.sources[x(V)].definition =
                                            chx.description],
                              V.blk.sources[x(V)].metadata, chx)
              Channels(V) == WriteChannels(V, x(V), nix_name, chx, 0)
              Units(V) == WriteUnits(V, chx.units, x(V))
          IN Units(Channels(Attributes(Source(W))))
    IN Named(EnsureNixName(W0, obj, "channelindex"))

RECURSIVE WriteSegments(_, _)
WriteSegments(W, objs) ==
    IF objs = <<>> \/ W.err # NoError THEN W
    ELSE WriteSegments(_write_segment(W, Head(objs)), Tail(objs))

RECURSIVE WriteChannelIndexes(_, _)
WriteChannelIndexes(W, objs) ==
    IF objs = <<>> \/ W.err # NoError THEN W
    ELSE WriteChannelIndexes(_write_channelindex(W, Head(objs)), Tail(objs))

-----------------------------------------------------------------------------
(* The links from the leaves to the sources of their groups.               *)

HasNixName(W, obj) == "nix_name" \in DOMAIN W.neo[obj].annotations

\* a linker that gave the sources to the first data array of a signal only
AppendSourceToFirst(W, danames, source) ==
    IF danames = <<>> \/ W.err # NoError THEN W
    ELSE [W EXCEPT !.blk.data_arrays[
                       IndexOf(W.blk.data_arrays, Head(danames))].sources =
                      Append(@, source)]

RECURSIVE AppendSource(_, _, _)
\* for da in self._signal_map[name]: da.sources.append(chxsource)
AppendSource(W, danames, source) ==
    IF danames = <<>> \/ W.err # NoError THEN W
    ELSE AppendSource(
             [W EXCEPT !.blk.data_arrays[
                            IndexOf(W.blk.data_arrays, Head(danames))].sources =
                           Append(@, source)],
             Tail(danames), source)

RECURSIVE LinkSignals(_, _, _)
\* the loop over signames; a name the signal map does not hold is a KeyError
LinkSignals(W, sigs, source) ==
    IF sigs = <<>> \/ W.err # NoError THEN W
    ELSE LET name == NixNameOf(W, Head(sigs))
         IN IF name \notin DOMAIN W.sigmap
            THEN [W EXCEPT !.err = "KeyError"]
            ELSE LinkSignals(AppendSource(W, W.sigmap[name], source),
                             Tail(sigs), source)

RECURSIVE LinkSpikeTrains(_, _, _, _)
\* the loop over unit.spiketrains
LinkSpikeTrains(W, sts, chxsource, unitsource) ==
    IF sts = <<>> \/ W.err # NoError THEN W
    ELSE IF ~HasNixName(W, Head(sts))
            \/ NixNameOf(W, Head(sts)) \notin Names(W.blk.multi_tags)
    THEN [W EXCEPT !.err = "KeyError"]
    ELSE LinkSpikeTrains(
             [W EXCEPT !.blk.multi_tags[
                            IndexOf(W.blk.multi_tags,
                                    NixNameOf(W, Head(sts)))].sources =
                           @ \o <<chxsource, unitsource>>],
             Tail(sts), chxsource, unitsource)

RECURSIVE LinkUnits(_, _, _)
\* the loop over chx.units
LinkUnits(W, units, chxsource) ==
    IF units = <<>> \/ W.err # NoError THEN W
    ELSE LinkUnits(
             LinkSpikeTrains(W, W.neo[Head(units)].spiketrains, chxsource,
                             NixNameOf(W, Head(units))),
             Tail(units), chxsource)

RECURSIVE LinkChannelIndexes(_, _)
\* the loop of _create_source_links over neoblock.channel_indexes
LinkChannelIndexes(W, chxs) ==
    IF chxs = <<>> \/ W.err # NoError THEN W
    ELSE
      LET chx == W.neo[Head(chxs)]
          sigs == chx.analogsignals \o chx.irregularlysampledsignals
          chxsource == NixNameOf(W, Head(chxs))
      IN IF \E i \in 1..Len(sigs) : ~HasNixName(W, sigs[i])
         THEN [W EXCEPT !.err = "KeyError"]
         ELSE LinkChannelIndexes(
                  LinkUnits(LinkSignals(W, sigs, chxsource), chx.units,
                            chxsource),
                  Tail(chxs))

\* _create_source_links(neoblock, nixblock)
_create_source_links(W, block) ==
    LinkChannelIndexes([W EXCEPT !.linked = W.next],
                       W.neo[block].channel_indexes)

-----------------------------------------------------------------------------
(* write_block.                                                            *)

RECURSIVE Descendants(_, _)
\* the sections below (and including) the sections in roots
Descendants(sections, roots) ==
    LET below == {i \in DOMAIN sections : sections[i].parent \in roots}
    IN IF below \subseteq roots THEN roots
       ELSE Descendants(sections, roots \cup below)

\* a write_block that left the metadata section of the block it deleted
KeepSection(sections, name) == sections

\* del self.nix_file.sections[name]: the top-level section and all below it
DeleteSection(sections, name) ==
    LET gone == Descendants(sections,
                            {i \in DOMAIN sections :
                                 sections[i].parent = 0 /\ sections[i].name = name})
    IN [i \in DOMAIN sections \ gone |-> sections[i]]

\* the empty block record nix_file.create_block(name, "neo.block") makes
NewNixBlock(name, id) ==
    [name |-> name, id |-> id, type |-> "neo.block", definition |-> None,
     metadata |-> 0, created_at |-> PyInt(id), groups |-> <<>>,
     data_arrays |-> <<>>, multi_tags |-> <<>>, sources |-> <<>>]

\* the state a call starts writing from; linked is the number of nodes the
\* file had been given when _create_source_links was called, 0 before
StartWrite(file, objects, generated, sigmap) ==
    [blk |-> NewNixBlock(None, 0), others |-> file.blocks,
     sections |-> file.sections, next |-> file.next, neo |-> objects,
     uuid |-> generated, sigmap |-> sigmap, last |-> 0, err |-> NoError,
     warnings |-> 0, linked |-> 0]

\* write_block(block) up to the reset of the signal map: the block node, its
\* metadata section and its attributes
WriteBlockNode(W0, obj) ==
    LET Named(W) ==
          LET nix_name == NixNameOf(W, obj)
              block == W.neo[obj]
              \* an existing block of that name and its metadata are deleted
              Deleted(V) ==
                  IF nix_name \in Names(V.others)
                  THEN [V EXCEPT
                           !.others = SeqFilter(@, {b \in Range(@) :
                                                        b.name # nix_name}),
                           !.sections = DeleteSection(@, nix_name)]
                  ELSE V
              Created(V) ==
                  [V EXCEPT !.blk = NewNixBlock(nix_name, V.next),
                            !.next = @ + 1]
              Attributes(V) ==
                  WriteAnnotations(
                      WriteDatetimes(
                          SetProp([V EXCEPT
                                      !.blk.metadata = V.last,
                                      !.blk.definition = block.description,
                                      !.blk.created_at =
                                          IF block.rec_datetime # None
                                          THEN PyInt(calculate_timestamp(
                                                         block.rec_datetime))
                                          ELSE @],
                                  V.last, "neo_name", <<NeoName(block)>>, ""),
                          V.last, block),
                      V.last, block.annotations, AnnotationKeys)
              \* self._signal_map = dict()
              Reset(V) == [V EXCEPT !.sigmap = [n \in {} |-> <<>>]]
          IN Reset(Attributes(
                 create_section(Created(Deleted(W)), 0, nix_name,
                                "neo.block.metadata")))
    IN Named(EnsureNixName(W0, obj, "block"))

\* a write_block that linked the sources before it wrote the segments and
\* the channel indexes
WriteBlockLinksFirst(W0, obj) ==
    LET Segs(V) == WriteSegments(V, V.neo[obj].segments)
        Chxs(V) == WriteChannelIndexes(V, V.neo[obj].channel_indexes)
        Links(V) ==
            IF V.err # NoError THEN V ELSE _create_source_links(V, obj)
    IN Chxs(Segs(Links(WriteBlockNode(W0, obj))))

\* write_block(block), on the writing state W0: the block node, then the
\* segments, then the channel indexes, then the links to the sources
WriteBlock(W0, obj) ==
    LET Segs(V) == WriteSegments(V, V.neo[obj].segments)
        Chxs(V) == WriteChannelIndexes(V, V.neo[obj].channel_indexes)
        Links(V) ==
            IF V.err # NoError THEN V ELSE _create_source_links(V, obj)
    IN Links(Chxs(Segs(WriteBlockNode(W0, obj))))

\* the file a writing state leaves
FileOf(W) ==
    [blocks |-> Append(W.others, W.blk), sections |-> W.sections,
     next |-> W.next]

-----------------------------------------------------------------------------
(* Reading: NIX nodes back to Neo objects.  A Neo object read is a record  *)
(* of its attributes; its containers hold the records of its children.     *)

RECURSIVE InsertByName(_, _)
InsertByName(sorted, node) ==
    IF sorted = <<>> THEN <<node>>
    ELSE IF DANameLess(node.name, Head(sorted).name)
    THEN <<node>> \o sorted
    ELSE <<Head(sorted)>> \o InsertByName(Tail(sorted), node)

RECURSIVE SortByName(_)
\* sorted(nodes, key=lambda d: d.name): the names compared as strings
SortByName(nodes) ==
    IF nodes = <<>> THEN <<>>
    ELSE InsertByName(SortByName(Tail(nodes)), Head(nodes))

RECURSIVE BaseNames(_, _)
\* the base names of the nodes, each once, in order of first appearance
BaseNames(nodes, seen) ==
    IF nodes = <<>> THEN <<>>
    ELSE IF Head(nodes).name.base \in seen THEN BaseNames(Tail(nodes), seen)
    ELSE <<Head(nodes).name.base>>
         \o BaseNames(Tail(nodes), seen \cup {Head(nodes).name.base})

\* _group_signals(dataarrays): sorted by name, then grouped by the name
\* without its last dot-separated part; a sequence of groups
_group_signals(dataarrays) ==
    LET Grouped(sorted, bases) ==
            [i \in 1..Len(bases) |->
                 SeqFilter(sorted, {d \in Range(sorted) :
                                        d.name.base = bases[i]})]
        Sorted(sorted) == Grouped(sorted, BaseNames(sorted, {}))
    IN Sorted(SortByName(dataarrays))

\* a reader that did not collapse a list of one value
PropValueAsList(prop) ==
    IF prop.unit # ""
    THEN QArray([i \in 1..Len(prop.values) |-> prop.values[i].i], prop.unit)
    ELSE PyList(prop.values)

\* the value _nix_attr_to_neo gives one property
PropValue(prop) ==
    IF prop.unit # ""
    THEN IF Len(prop.values) = 1
         THEN Quantity(prop.values[1].i, prop.unit)
         ELSE QArray([i \in 1..Len(prop.values) |-> prop.values[i].i],
                     prop.unit)
    ELSE IF Len(prop.values) = 1 THEN prop.values[1]
    ELSE PyList(prop.values)

\* _nix_attr_to_neo(nix_obj): attribute name -> value
_nix_attr_to_neo(sections, nix_obj) ==
    LET props == IF nix_obj.metadata # 0
                 THEN sections[nix_obj.metadata].props
                 ELSE NoProps
        Named(attrs) ==
            ("name" :> IF "neo_name" \in DOMAIN attrs
                       THEN stringify(attrs["neo_name"])
                       ELSE None) @@ attrs
        Dated(attrs) ==
            IF "file_datetime" \in DOMAIN attrs
            THEN ("file_datetime" :> PyDatetime(attrs["file_datetime"].ts))
                 @@ attrs
            ELSE attrs
    IN Dated(Named([k \in DOMAIN props |-> PropValue(props[k])]
                   @@ ("nix_name" :> nix_obj.name)
                   @@ ("description" :> stringify(nix_obj.definition))))

\* what a constructor keeps as annotations: the keyword arguments that are
\* not attributes of the class
Annotations(attrs, attributes) ==
    [k \in DOMAIN attrs \ attributes |-> attrs[k]]

\* _get_time_dimension(obj): the first dimension labelled "time"
_get_time_dimension(obj) ==
    LET ds == {i \in 1..Len(obj.dims) :
                   "label" \in DOMAIN obj.dims[i] /\ obj.dims[i].label = "time"}
    IN IF ds = {} THEN None
       ELSE obj.dims[CHOOSE i \in ds : \A j \in ds : i <= j]

\* the payload of a group of data arrays: np.array([...]).transpose()
SignalOf(group) == Transpose([i \in 1..Len(group) |-> group[i].data])

\* _nix_to_neo_analogsignal(nix_da_group)
_nix_to_neo_analogsignal(sections, nix_da_group) ==
    LET Build(group, attrs, timedim) ==
            [kind |-> "AnalogSignal", name |-> attrs["name"],
             description |-> attrs["description"],
             annotations |-> Annotations(attrs, {"name", "description",
                                                 "t_start", "file_datetime"}),
             signal |-> SignalOf(group), units |-> group[1].unit,
             sampling_period |-> Quantity(timedim.sampling_interval,
                                          timedim.unit),
             t_start |-> IF "t_start" \in DOMAIN attrs THEN attrs["t_start"]
                         ELSE Quantity(timedim.offset, timedim.unit),
             channel_index |-> None]
        Sorted(group) ==
            Build(group,
                  ("nix_name" :> sections[group[1].metadata].name)
                  @@ _nix_attr_to_neo(sections, group[1]),
                  _get_time_dimension(group[1]))
    IN Sorted(SortByName(nix_da_group))

\* _nix_to_neo_irregularlysampledsignal(nix_da_group)
_nix_to_neo_irregularlysampledsignal(sections, nix_da_group) ==
    LET Build(group, attrs, timedim) ==
            [kind |-> "IrregularlySampledSignal", name |-> attrs["name"],
             description |-> attrs["description"],
             annotations |-> Annotations(attrs, {"name", "description",
                                                 "file_datetime"}),
             signal |-> SignalOf(group), units |-> group[1].unit,
             times |-> QArray(timedim.ticks, timedim.unit),
             channel_index |-> None]
        Sorted(group) ==
            Build(group,
                  ("nix_name" :> sections[group[1].metadata].name)
                  @@ _nix_attr_to_neo(sections, group[1]),
                  _get_time_dimension(group[1]))
    IN Sorted(SortByName(nix_da_group))

\* the data array of a block by its name
DataArray(blk, name) == blk.data_arrays[IndexOf(blk.data_arrays, name)]

\* _nix_to_neo_event(nix_mtag)
_nix_to_neo_event(sections, blk, nix_mtag) ==
    LET Build(attrs, positions) ==
            [kind |-> "Event", name |-> attrs["name"],
             description |-> attrs["description"],
             annotations |-> Annotations(attrs, {"name", "description",
                                                 "file_datetime"}),
             times |-> QArray(positions.data, positions.unit),
             labels |-> positions.dims[1].labels]
    IN Build(_nix_attr_to_neo(sections, nix_mtag),
             DataArray(blk, nix_mtag.positions))

\* _nix_to_neo_epoch(nix_mtag)
_nix_to_neo_epoch(sections, blk, nix_mtag) ==
    LET Build(attrs, positions, extents) ==
            [kind |-> "Epoch", name |-> attrs["name"],
             description |-> attrs["description"],
             annotations |-> Annotations(attrs, {"name", "description",
                                                 "file_datetime"}),
             times |-> QArray(positions.data, positions.unit),
             durations |-> QArray(extents.data, extents.unit),
             labels |-> positions.dims[1].labels]
    IN Build(_nix_attr_to_neo(sections, nix_mtag),
             DataArray(blk, nix_mtag.positions),
             DataArray(blk, nix_mtag.extents))

\* the waveforms, the sampling period and the left sweep of a spike train,
\* from the first feature of its multi tag
Waveforms(sections, wfda, wftime) ==
    [waveforms |-> QArray(wfda.data, wfda.unit),
     sampling_period |-> Quantity(wftime.sampling_interval, wftime.unit),
     left_sweep |-> IF "left_sweep" \in DOMAIN sections[wfda.metadata].props
                    THEN Quantity(sections[wfda.metadata].props["left_sweep"]
                                      .values[1].i,
                                  wftime.unit)
                    ELSE None]

\* _nix_to_neo_spiketrain(nix_mtag)
_nix_to_neo_spiketrain(sections, blk, nix_mtag) ==
    LET Build(attrs, positions, wf) ==
            [kind |-> "SpikeTrain", name |-> attrs["name"],
             description |-> attrs["description"],
             annotations |-> Annotations(attrs, {"name", "description",
                                                 "t_start", "t_stop",
                                                 "file_datetime"}),
             times |-> QArray(positions.data, positions.unit),
             units |-> positions.unit,
             t_start |-> IF "t_start" \in DOMAIN attrs THEN attrs["t_start"]
                         ELSE None,
             t_stop |-> IF "t_stop" \in DOMAIN attrs THEN attrs["t_stop"]
                        ELSE None,
             waveforms |-> wf.waveforms,
             sampling_period |-> wf.sampling_period,
             left_sweep |-> wf.left_sweep,
             unit |-> None]
        Feature(wfda) == Waveforms(sections, wfda, _get_time_dimension(wfda))
    IN Build(_nix_attr_to_neo(sections, nix_mtag),
             DataArray(blk, nix_mtag.positions),
             IF nix_mtag.features # <<>>
             THEN Feature(DataArray(blk, nix_mtag.features[1]))
             ELSE [waveforms |-> None, sampling_period |-> None,
                   left_sweep |-> None])

RECURSIVE ReadSignals(_, _)
\* the loop of _nix_to_neo_segment over the grouped data arrays
ReadSignals(sections, groups) ==
    IF groups = <<>> THEN <<>>
    ELSE (IF Head(groups)[1].type = "neo.analogsignal"
          THEN <<_nix_to_neo_analogsignal(sections, Head(groups))>>
          ELSE IF Head(groups)[1].type = "neo.irregularlysampledsignal"
          THEN <<_nix_to_neo_irregularlysampledsignal(sections, Head(groups))>>
          ELSE <<>>)
         \o ReadSignals(sections, Tail(groups))

RECURSIVE ReadTags(_, _, _)
\* the loop of _nix_to_neo_segment over the group's multi tags
ReadTags(sections, blk, mtags) ==
    IF mtags = <<>> THEN <<>>
    ELSE (CASE Head(mtags).type = "neo.event" ->
                 <<_nix_to_neo_event(sections, blk, Head(mtags))>>
            [] Head(mtags).type = "neo.epoch" ->
                 <<_nix_to_neo_epoch(sections, blk, Head(mtags))>>
            [] Head(mtags).type = "neo.spiketrain" ->
                 <<_nix_to_neo_spiketrain(sections, blk, Head(mtags))>>
            [] OTHER -> <<>>)
         \o ReadTags(sections, blk, Tail(mtags))

RECURSIVE OfKind(_, _)
\* the objects of one kind among those read, in the order they were read:
\* the container of the segment the loop appended them to
OfKind(objs, kind) ==
    IF objs = <<>> THEN <<>>
    ELSE (IF Head(objs).kind = kind THEN <<Head(objs)>> ELSE <<>>)
         \o OfKind(Tail(objs), kind)

\* the nodes of the block a group links, in the group's order
GroupDataArrays(blk, nix_group) ==
    [i \in 1..Len(nix_group.data_arrays) |->
         DataArray(blk, nix_group.data_arrays[i])]

GroupMultiTags(blk, nix_group) ==
    [i \in 1..Len(nix_group.multi_tags) |->
         blk.multi_tags[IndexOf(blk.multi_tags, nix_group.multi_tags[i])]]

\* filter(lambda da: da.type in (...), nix_group.data_arrays)
SignalArrays(das) ==
    SeqFilter(das, {d \in Range(das) : d.type \in SignalTypes})

\* _nix_to_neo_segment(nix_group)
_nix_to_neo_segment(sections, blk, nix_group) ==
    LET Build(attrs, signals, tagged) ==
            [kind |-> "Segment", name |-> attrs["name"],
             description |-> attrs["description"],
             annotations |-> Annotations(attrs, {"name", "description",
                                                 "file_datetime"}),
             rec_datetime |-> PyDatetime(nix_group.created_at.i),
             file_datetime |-> IF "file_datetime" \in DOMAIN attrs
                               THEN attrs["file_datetime"] ELSE None,
             analogsignals |-> OfKind(signals, "AnalogSignal"),
             irregularlysampledsignals |->
                 OfKind(signals, "IrregularlySampledSignal"),
             events |-> OfKind(tagged, "Event"),
             epochs |-> OfKind(tagged, "Epoch"),
             spiketrains |-> OfKind(tagged, "SpikeTrain")]
    IN Build(_nix_attr_to_neo(sections, nix_group),
             ReadSignals(sections,
                         _group_signals(SignalArrays(
                             GroupDataArrays(blk, nix_group)))),
             ReadTags(sections, blk, GroupMultiTags(blk, nix_group)))

\* _nix_to_neo_block(nix_block): the segments are read; nothing reads the
\* sources, so the Block returned has the channel_indexes of a new Block
_nix_to_neo_block(sections, nix_block) ==
    LET Build(attrs) ==
            [kind |-> "Block", name |-> attrs["name"],
             description |-> attrs["description"],
             annotations |-> Annotations(attrs, {"name", "description",
                                                 "file_datetime"}),
             rec_datetime |-> PyDatetime(nix_block.created_at.i),
             file_datetime |-> IF "file_datetime" \in DOMAIN attrs
                               THEN attrs["file_datetime"] ELSE None,
             segments |-> [i \in 1..Len(nix_block.groups) |->
                               _nix_to_neo_segment(sections, nix_block,
                                                   nix_block.groups[i])],
             channel_indexes |-> <<>>]
    IN Build(_nix_attr_to_neo(sections, nix_block))

\* the entries _nix_to_neo_block leaves in _neo_map: the name of every
\* group, signal and multi tag converted, with the kind of the Neo object
NeoMapOf(sections, nix_block) ==
    LET linkedDAs == UNION {Range(nix_block.groups[i].data_arrays) :
                                i \in 1..Len(nix_block.groups)}
        linkedMTs == UNION {Range(nix_block.groups[i].multi_tags) :
                                i \in 1..Len(nix_block.groups)}
        sigs == {d \in Range(nix_block.data_arrays) :
                     d.name \in linkedDAs /\ d.type \in SignalTypes}
        sigName(d) ==
            sections[Head(SortByName(
                SeqFilter(nix_block.data_arrays,
                          {e \in sigs : e.name.base = d.name.base}))).metadata].name
        tags == {m \in Range(nix_block.multi_tags) : m.name \in linkedMTs}
        keys == Names(nix_block.groups) \cup {sigName(d) : d \in sigs}
                \cup {m.name : m \in tags}
    IN [k \in keys |->
           IF k \in Names(nix_block.groups) THEN "Segment"
           ELSE IF \E m \in tags : m.name = k
           THEN (CHOOSE m \in tags : m.name = k).type
           ELSE (CHOOSE d \in sigs : sigName(d) = k).type]

-----------------------------------------------------------------------------
(* _hash_object.  The digest is taken as injective on its input, so the    *)
(* model's hash is the input itself: the sequence of the pieces fed to     *)
(* md5.update, a str(value) character by character and an array element    *)
(* by element.                                                             *)

\* strupdate(a): objhash.update(str(a).encode())
strupdate(a) == Str(a)

\* the buffer of one number
Bytes(n) == <<"#">> \o Digits(n)

RECURSIVE ArrayBytes(_)
\* dupdate(d) on a one-dimensional array: the buffer of its elements
ArrayBytes(mag) ==
    IF mag = <<>> THEN <<>> ELSE Bytes(Head(mag)) \o ArrayBytes(Tail(mag))

\* dupdate(d) on a matrix: its rows, one after the other (C order)
dupdate(rows) == ArrayBytes(Flatten(rows))

RECURSIVE HashAnnotations(_, _)
\* for k, v in sorted(obj.annotations.items()): strupdate(k); strupdate(v)
HashAnnotations(annotations, keys) ==
    IF keys = <<>> THEN <<>>
    ELSE (IF Head(keys) \in DOMAIN annotations
          THEN <<Head(keys)>> \o strupdate(annotations[Head(keys)])
          ELSE <<>>)
         \o HashAnnotations(annotations, Tail(keys))

RECURSIVE HashStrings(_)
\* for x in xs: strupdate(x)
HashStrings(xs) ==
    IF xs = <<>> THEN <<>> ELSE strupdate(Head(xs)) \o HashStrings(Tail(xs))

\* obj.sampling_rate, 1 / sampling_period, as the buffer dupdate takes
RateBytes(sampling_period) ==
    IF sampling_period = None THEN <<"#">>
    ELSE <<"#", "1/">> \o Digits(sampling_period.mag)

\* the part of the digest input that depends on the kind of the object
HashData(obj) ==
    CASE obj.kind \in {"Block", "Segment"} ->
           strupdate(obj.rec_datetime) \o strupdate(obj.file_datetime)
      [] obj.kind = "ChannelIndex" ->
           HashStrings([i \in 1..Len(obj.index) |-> PyInt(obj.index[i])])
           \o HashStrings(obj.channel_names)
           \o (IF obj.coordinates # None
               THEN HashStrings([i \in 1..Len(Flatten(obj.coordinates.mag)) |->
                        Quantity(Flatten(obj.coordinates.mag)[i],
                                 obj.coordinates.units)])
               ELSE <<>>)
      [] obj.kind = "AnalogSignal" ->
           dupdate(obj.signal)
           \o Bytes(1)                       \* obj.units: the unit's magnitude
           \o Bytes(obj.t_start.mag)
           \o RateBytes(obj.sampling_period)
           \o Bytes(Rescale(obj.t_start, obj.sampling_period.units)
                    + Len(obj.signal) * obj.sampling_period.mag)   \* t_stop
      [] obj.kind = "IrregularlySampledSignal" ->
           dupdate(obj.signal) \o ArrayBytes(obj.times.mag) \o Bytes(1)
      [] obj.kind = "Event" ->
           ArrayBytes(obj.times.mag) \o HashStrings(obj.labels)
      [] obj.kind = "Epoch" ->
           ArrayBytes(obj.times.mag) \o ArrayBytes(obj.durations.mag)
           \o HashStrings(obj.labels)
      [] obj.kind = "SpikeTrain" ->
           ArrayBytes(obj.times.mag) \o Bytes(1) \o Bytes(obj.t_stop.mag)
           \o Bytes(obj.t_start.mag)
           \o (IF obj.waveforms # None THEN ArrayBytes(obj.waveforms.mag)
               ELSE <<>>)
           \o RateBytes(obj.sampling_period)
           \o (IF obj.left_sweep # None THEN strupdate(obj.left_sweep)
               ELSE <<>>)
      [] obj.kind = "Unit" -> <<>>

\* what _hash_object feeds the digest: name, description, annotations in
\* the order of their keys, the data of the kind, the name of the type
HashInput(obj) ==
    strupdate(obj.name) \o strupdate(obj.description)
    \o HashAnnotations(obj.annotations, AnnotationKeys)
    \o HashData(obj)
    \o <<obj.kind>>

\* the children of an object, container after container
ChildList(obj) ==
    CASE obj.kind = "Block" -> obj.segments \o obj.channel_indexes
      [] obj.kind = "Segment" ->
           obj.analogsignals \o obj.irregularlysampledsignals \o obj.events
           \o obj.epochs \o obj.spiketrains
      [] obj.kind = "ChannelIndex" ->
           obj.analogsignals \o obj.irregularlysampledsignals \o obj.units
      [] obj.kind = "Unit" -> obj.spiketrains
      [] OTHER -> <<>>

\* a hash that descended into the children: what the independence of the
\* hash from the children excludes
HashWithChildren(objects, o) ==
    HashInput(objects[o])
    \o Flatten([i \in 1..Len(ChildList(objects[o])) |->
                    HashInput(objects[ChildList(objects[o])[i]])])

\* _hash_object(obj), obj an object of the graph objects
_hash_object(objects, o) == HashInput(objects[o])

-----------------------------------------------------------------------------
(* The calls.                                                              *)

ChannelCounts == {2, MaxChannels}

NoResult == [op |-> "none", status |-> NoError, args |-> <<>>, value |-> None]

NoHash == [obj |-> "none", objects |-> <<>>, digest |-> <<>>]

\* NixIO(filename, mode="ow") on a new file, and a graph to write
Init ==
    /\ \E nchan \in ChannelCounts, shared \in BOOLEAN, withchx \in BOOLEAN :
           neo = InitialGraph(nchan, shared, withchx, PyStr(<<"b">>))
    /\ uuid = 0
    /\ nix_file = [blocks |-> <<>>, sections |-> [i \in {} |-> None], next |-> 1]
    /\ mode = "ow"
    /\ _block_read_counter = 0
    /\ _neo_map = [n \in {} |-> None]
    /\ _signal_map = [n \in {} |-> <<>>]
    /\ result = NoResult
    /\ synced = [b \in Blocks |-> FALSE]
    /\ sequential = TRUE
    /\ hashed = NoHash
    /\ writes = 0
    /\ edits = 0

\* io.close(), then NixIO(filename, "ro"): a new instance on the same file
Reopen ==
    /\ mode = "ow"
    /\ mode' = "ro"
    /\ _block_read_counter' = 0
    /\ _neo_map' = [n \in {} |-> None]
    /\ _signal_map' = [n \in {} |-> <<>>]
    /\ sequential' = TRUE
    /\ result' = [op |-> "open", status |-> NoError, args |-> <<>>,
                  value |-> None]
    /\ UNCHANGED <<neo, uuid, nix_file, synced, hashed, writes, edits>>

\* an instance whose file is open: self.nix_file is a nix.File
Open == mode \in {"ow", "ro"}

\* write_block(block) on an instance that was closed: the block gets its
\* identifier, then self.nix_file.blocks is read, self.nix_file being None
WriteClosed(W0, obj) ==
    [EnsureNixName(W0, obj, "block") EXCEPT !.err = "AttributeError"]

\* write_block(block); a file opened read-only is not written
write_block(block) ==
    /\ mode \in {"ow", "closed"}
    /\ writes < MaxWrites
    /\ LET W == IF mode = "closed"
                THEN WriteClosed(StartWrite(nix_file, neo, uuid, _signal_map),
                                 block)
                ELSE WriteBlock(StartWrite(nix_file, neo, uuid, _signal_map),
                                block)
       IN /\ nix_file' = IF mode = "closed" THEN nix_file ELSE FileOf(W)
          /\ neo' = W.neo
          /\ uuid' = W.uuid
          /\ _signal_map' = W.sigmap
          /\ result' = [op |-> "write_block", status |-> W.err,
                        args |-> <<block>>, value |-> PyInt(W.warnings),
                        linked |-> W.linked]
          /\ synced' = [synced EXCEPT ![block] = (W.err = NoError)]
    /\ writes' = writes + 1
    /\ UNCHANGED <<mode, _block_read_counter, _neo_map, sequential, hashed,
                   edits>>

\* the block read_block's selectors pick: [err, pos], pos 0 for none
SelectBlock(index, nixname, neoname) ==
    LET blocks == nix_file.blocks
        byname == {i \in 1..Len(blocks) :
                      LET props == nix_file.sections[blocks[i].metadata].props
                      IN "neo_name" \in DOMAIN props
                         /\ PropValue(props["neo_name"]) = neoname}
    IN IF mode = "closed"       \* self.nix_file is None
       THEN [err |-> "AttributeError", pos |-> 0]
       ELSE IF index # None
       THEN IF index.i < Len(blocks)
            THEN [err |-> NoError, pos |-> index.i + 1]
            ELSE [err |-> "IndexError", pos |-> 0]
       ELSE IF nixname # None
       THEN IF nixname \in Names(blocks)
            THEN [err |-> NoError, pos |-> IndexOf(blocks, nixname)]
            ELSE [err |-> "KeyError", pos |-> 0]
       ELSE IF neoname # None
       THEN IF byname # {}
            THEN [err |-> NoError,
                  pos |-> CHOOSE i \in byname : \A j \in byname : i <= j]
            ELSE [err |-> "KeyError", pos |-> 0]
       ELSE IF _block_read_counter > Len(blocks)
       THEN [err |-> "None", pos |-> 0]
       ELSE IF _block_read_counter < Len(blocks)
       THEN [err |-> NoError, pos |-> _block_read_counter + 1]
       ELSE [err |-> "IndexError", pos |-> 0]

\* the block read_block converts: after the selection, nix_block is assigned
\* again, self.nix_file.blocks[self._block_read_counter]
ReadBlockPos(selected) ==
    IF selected.err # NoError THEN selected
    ELSE IF _block_read_counter < Len(nix_file.blocks)
    THEN [err |-> NoError, pos |-> _block_read_counter + 1]
    ELSE [err |-> "IndexError", pos |-> 0]

\* the blocks of the file a call may name, and one name no block has
BlockNames == Names(nix_file.blocks) \cup {NixName("block", 0)}

\* read_block(index, nixname, neoname)
read_block(index, nixname, neoname) ==
    /\ LET picked == ReadBlockPos(SelectBlock(index, nixname, neoname))
           args == [index |-> index, nixname |-> nixname, neoname |-> neoname,
                    counter |-> _block_read_counter,
                    nblocks |-> Len(nix_file.blocks)]
       IN IF picked.err # NoError
          THEN /\ result' = [op |-> "read_block", status |-> picked.err,
                             args |-> args, value |-> None]
               /\ UNCHANGED <<_block_read_counter, _neo_map>>
          ELSE /\ result' = [op |-> "read_block", status |-> NoError,
                             args |-> args,
                             value |-> _nix_to_neo_block(
                                           nix_file.sections,
                                           nix_file.blocks[picked.pos])]
               /\ _block_read_counter' = _block_read_counter + 1
               /\ _neo_map' = NeoMapOf(nix_file.sections,
                                       nix_file.blocks[picked.pos]) @@ _neo_map
    /\ sequential' = (sequential /\ index = None /\ nixname = None
                       /\ neoname = None)
    /\ UNCHANGED <<neo, uuid, nix_file, mode, _signal_map, synced, hashed, writes,
                   edits>>

RECURSIVE NeoMapAll(_, _)
NeoMapAll(sections, blocks) ==
    IF blocks = <<>> THEN [n \in {} |-> None]
    ELSE NeoMapAll(sections, Tail(blocks)) @@ NeoMapOf(sections, Head(blocks))

\* read_all_blocks(), and iter_blocks() run to its end: every block of the
\* file converted, in order
read_all_blocks(op) ==
    /\ IF mode = "closed"       \* self.nix_file is None
       THEN /\ result' = [op |-> op, status |-> "AttributeError",
                          args |-> <<>>, value |-> None]
            /\ UNCHANGED _neo_map
       ELSE /\ result' = [op |-> op, status |-> NoError, args |-> <<>>,
                          value |-> [i \in 1..Len(nix_file.blocks) |->
                                         _nix_to_neo_block(nix_file.sections,
                                                           nix_file.blocks[i])]]
            /\ _neo_map' = NeoMapAll(nix_file.sections, nix_file.blocks)
                               @@ _neo_map
    /\ sequential' = FALSE
    /\ UNCHANGED <<neo, uuid, nix_file, mode, _block_read_counter, _signal_map,
                   synced, hashed, writes, edits>>

\* the attributes __init__ sets on the instance (BaseIO.__init__ adds the
\* logger); reading any other attribute of self raises AttributeError
InstanceAttributes ==
    {"filename", "logger", "nix_file", "_block_read_counter", "_neo_map",
     "_signal_map"}

\* _get_object_at(path): its first statement reads self._path_map
_get_object_at(path) ==
    IF "_path_map" \notin InstanceAttributes
    THEN [err |-> "AttributeError", obj |-> None]
    ELSE [err |-> "LookupError", obj |-> None]

\* _get_parent(path): _get_object_at of the path without its last two parts
_get_parent(path) == _get_object_at(SubSeq(path, 1, Len(path) - 2))

\* the paths "/<block>/segments/<segment>/analogsignals/<signal>" of the file
PathsOfSignals ==
    UNION {UNION {{<<b.name, "segments", b.groups[g].name, "analogsignals",
                     n.base>> : n \in Range(b.groups[g].data_arrays)} :
                      g \in 1..Len(b.groups)} : b \in Range(nix_file.blocks)}

\* the paths "/<block>/channel_indexes/<channel index>" of the file
PathsOfChannelIndexes ==
    UNION {{<<b.name, "channel_indexes", n>> : n \in Names(b.sources)} :
               b \in Range(nix_file.blocks)}

\* paths no node of the file is stored at: a signal of which a group of the
\* file holds no array, and a channel index no block of the file has
MissingSignalPaths ==
    UNION {{<<b.name, "segments", b.groups[g].name, "analogsignals",
              NixName("analogsignal", 0)>> : g \in 1..Len(b.groups)} :
               b \in Range(nix_file.blocks)}

MissingChannelIndexPaths ==
    {<<b.name, "channel_indexes", NixName("channelindex", 0)>> :
         b \in Range(nix_file.blocks)}

\* _read_signal(path): the parent group is looked up first
_read_signal(path) ==
    /\ result' = [op |-> "_read_signal", status |-> _get_parent(path).err,
                  args |-> path, value |-> None]
    /\ sequential' = FALSE
    /\ UNCHANGED <<neo, uuid, nix_file, mode, _block_read_counter, _neo_map,
                   _signal_map, synced, hashed, writes, edits>>

\* _read_channelindex(path): the source is looked up first
_read_channelindex(path) ==
    /\ result' = [op |-> "_read_channelindex",
                  status |-> _get_object_at(path).err,
                  args |-> path, value |-> None]
    /\ sequential' = FALSE
    /\ UNCHANGED <<neo, uuid, nix_file, mode, _block_read_counter, _neo_map,
                   _signal_map, synced, hashed, writes, edits>>

\* type(obj).__name__.lower()
TypeName(kind) ==
    CASE kind = "Block" -> "block"
      [] kind = "Segment" -> "segment"
      [] kind = "AnalogSignal" -> "analogsignal"
      [] kind = "IrregularlySampledSignal" -> "irregularlysampledsignal"
      [] kind = "Event" -> "event"
      [] kind = "Epoch" -> "epoch"
      [] kind = "SpikeTrain" -> "spiketrain"
      [] kind = "ChannelIndex" -> "channelindex"
      [] kind = "Unit" -> "unit"

\* _write_object(obj, loc): the object gets its identifier, then
\* self._object_hashes is read
_write_object(obj) ==
    /\ mode = "ow"
    /\ writes < MaxWrites
    /\ LET W == EnsureNixName(StartWrite(nix_file, neo, uuid, _signal_map),
                              obj, TypeName(neo[obj].kind))
       IN /\ neo' = W.neo
          /\ uuid' = W.uuid
    /\ result' = [op |-> "_write_object",
                  status |-> IF "_object_hashes" \notin InstanceAttributes
                             THEN "AttributeError" ELSE NoError,
                  args |-> <<obj>>, value |-> None]
    /\ writes' = writes + 1
    /\ UNCHANGED <<nix_file, mode, _block_read_counter, _neo_map,
                   _signal_map, synced, sequential, hashed, edits>>

\* the per-channel data arrays of the signal called base, in a block
ChannelArrays(blk, base) ==
    {i \in 1..Len(blk.data_arrays) :
         blk.data_arrays[i].type \in SignalTypes
         /\ blk.data_arrays[i].name.base = base}

\* the arrays of one signal do not all reference one metadata section
Corrupt(blk, base) ==
    \E i, j \in ChannelArrays(blk, base) :
        blk.data_arrays[i].metadata # blk.data_arrays[j].metadata

\* Someone edits the file by hand: the data array at position j of block b,
\* one of several of its signal, is made to reference the block's metadata
\* section instead of the signal's.
CorruptMetadata(b, j) ==
    /\ b \in 1..Len(nix_file.blocks)
    /\ LET blk == nix_file.blocks[b]
       IN /\ j \in 1..Len(blk.data_arrays)
          /\ blk.data_arrays[j].type \in SignalTypes
          /\ blk.data_arrays[j].name.suffix = <<"1">>
          /\ Cardinality(ChannelArrays(blk, blk.data_arrays[j].name.base)) > 1
          /\ \A k \in 1..Len(blk.data_arrays) :
                 ~Corrupt(blk, blk.data_arrays[k].name.base)
          /\ nix_file' = [nix_file EXCEPT
                             !.blocks[b].data_arrays[j].metadata = blk.metadata]
    /\ result' = [op |-> "edit_file", status |-> NoError, args |-> <<b, j>>,
                  value |-> None]
    /\ synced' = [o \in Blocks |-> FALSE]
    /\ UNCHANGED <<neo, uuid, mode, _block_read_counter, _neo_map,
                   _signal_map, sequential, hashed, writes, edits>>

\* the arrays of one signal are not named <base>.0 .. <base>.(n-1)
Gap(blk, base) ==
    {blk.data_arrays[i].name.suffix : i \in ChannelArrays(blk, base)}
        # {Digits(i) : i \in 0..(Cardinality(ChannelArrays(blk, base)) - 1)}

\* Someone edits the file by hand: the data array at position j of block b,
\* the second of three or more of its signal, is deleted with every link to
\* it.
RemoveArray(b, j) ==
    /\ b \in 1..Len(nix_file.blocks)
    /\ LET blk == nix_file.blocks[b]
           Others(names) == SeqFilter(names, Range(names) \ {blk.data_arrays[j].name})
       IN /\ j \in 1..Len(blk.data_arrays)
          /\ blk.data_arrays[j].type \in SignalTypes
          /\ blk.data_arrays[j].name.suffix = <<"1">>
          /\ Cardinality(ChannelArrays(blk, blk.data_arrays[j].name.base)) > 2
          /\ \A k \in 1..Len(blk.data_arrays) :
                 /\ ~Corrupt(blk, blk.data_arrays[k].name.base)
                 /\ ~Gap(blk, blk.data_arrays[k].name.base)
          /\ nix_file' = [nix_file EXCEPT
                 !.blocks[b].data_arrays =
                     SeqFilter(@, Range(@) \ {blk.data_arrays[j]}),
                 !.blocks[b].groups =
                     [g \in 1..Len(@) |->
                         [@[g] EXCEPT !.data_arrays = Others(@)]],
                 !.blocks[b].multi_tags =
                     [t \in 1..Len(@) |->
                         [@[t] EXCEPT !.references = Others(@)]]]
    /\ result' = [op |-> "edit_file", status |-> NoError, args |-> <<b, j>>,
                  value |-> None]
    /\ synced' = [o \in Blocks |-> FALSE]
    /\ UNCHANGED <<neo, uuid, mode, _block_read_counter, _neo_map,
                   _signal_map, sequential, hashed, writes, edits>>

-----------------------------------------------------------------------------
(* The user's changes to the graph between two calls.                      *)

\* the attributes of an object that hold its children
ChildAttributes(kind) ==
    CASE kind = "Block" -> {"segments", "channel_indexes"}
      [] kind = "Segment" -> {"analogsignals", "irregularlysampledsignals",
                              "events", "epochs", "spiketrains"}
      [] kind = "ChannelIndex" -> {"analogsignals",
                                   "irregularlysampledsignals", "units"}
      [] kind = "Unit" -> {"spiketrains"}
      [] OTHER -> {}

\* the attributes of an object that are its own
OwnAttributes(obj) == (DOMAIN obj) \ (ChildAttributes(obj.kind) \cup {"kind"})

\* the object a container attribute may get as one more child
Candidate(attr) ==
    CASE attr = "segments" -> "seg3"
      [] attr = "channel_indexes" -> "chx1"
      [] attr = "analogsignals" -> "asig1"
      [] attr = "irregularlysampledsignals" -> "isig1"
      [] attr = "events" -> "ev1"
      [] attr = "epochs" -> "ep1"
      [] attr = "spiketrains" -> "st1"
      [] attr = "units" -> "unit1"

\* a container with its first child removed (way 1) or one more child (way 2)
ModifiedChildren(children, attr, way) ==
    IF way = 1
    THEN (IF children = <<>> THEN children ELSE Tail(children))
    ELSE (IF Candidate(attr) \in Range(children) THEN children
          ELSE Append(children, Candidate(attr)))

\* one element of an own attribute changed; the attribute unchanged when
\* there is no such change
ModifiedOwn(obj, attr, way) ==
    LET old == obj[attr]
    IN CASE attr = "name" ->
              IF way = 1 THEN PyStr(<<"b">>)
              ELSE PyStr(<<"N", "o", "n", "e">>)
         [] attr = "description" ->
              IF way = 1 THEN PyStr(<<"a">>) ELSE old
         [] attr = "annotations" ->
              IF way = 3 THEN ("k" :> NestedList) @@ old
              ELSE IF "a" \notin DOMAIN old THEN old
              ELSE IF way = 1 THEN [old EXCEPT !["a"] = PyInt(2)]
              ELSE [k \in ((DOMAIN old) \ {"a"}) \cup {"k"} |->
                       IF k = "k" THEN old["a"] ELSE old[k]]
         [] attr \in {"rec_datetime", "file_datetime"} ->
              IF way = 1 THEN PyDatetime(5) ELSE old
         [] attr = "signal" ->
              IF way = 1 THEN [old EXCEPT ![1][1] = @ + 1000]
              ELSE IF way = 4 /\ Len(old[1]) > 1
              THEN [r \in 1..Len(old) |-> SubSeq(old[r], 1, Len(old[r]) - 1)]
              ELSE old
         [] attr \in {"t_start", "t_stop", "sampling_period"} ->
              IF way = 1 THEN [old EXCEPT !.mag = @ + 1] ELSE old
         [] attr \in {"times", "durations"} ->
              IF way = 1 THEN [old EXCEPT !.mag[1] = @ + 1] ELSE old
         [] attr = "labels" ->
              IF way = 1 THEN [old EXCEPT ![1] = PyStr(<<"k">>)] ELSE old
         [] attr = "waveforms" ->
              IF way = 1 THEN QArray(<<3, 4>>, "mV") ELSE old
         [] attr = "left_sweep" ->
              IF way = 1 THEN Quantity(2, "ms") ELSE old
         [] attr = "index" ->
              IF way = 1 THEN [old EXCEPT ![1] = 7] ELSE old
         [] attr = "channel_names" ->
              IF way = 1 THEN [old EXCEPT ![1] = PyStr(<<"b">>)] ELSE old
         [] attr = "channel_ids" ->
              IF way = 1 THEN [old EXCEPT ![1] = 9] ELSE old
         [] attr = "coordinates" ->
              IF way = 1 THEN [old EXCEPT !.mag[1] = <<5, 0>>] ELSE old
         [] OTHER -> old

Modified(obj, attr, way) ==
    IF attr \in ChildAttributes(obj.kind)
    THEN ModifiedChildren(obj[attr], attr, way)
    ELSE ModifiedOwn(obj, attr, way)

AttributeNames == UNION {DOMAIN InitialGraph(1, FALSE, TRUE, None)[o] : o \in Objects}

\* obj.attr = value, by the user
Edit(o, attr, way) ==
    /\ edits < MaxEdits
    /\ attr \in (DOMAIN neo[o]) \ {"kind"}
    /\ Modified(neo[o], attr, way) # neo[o][attr]
    /\ neo' = [neo EXCEPT ![o][attr] = Modified(neo[o], attr, way)]
    /\ edits' = edits + 1
    /\ synced' = [b \in Blocks |-> FALSE]
    /\ UNCHANGED <<uuid, nix_file, mode, _block_read_counter, _neo_map, _signal_map,
                   result, sequential, hashed, writes>>

\* _hash_object(obj), called on an object of the graph; the graph and the
\* digest are remembered
HashObject(o) ==
    /\ hashed.obj # o
    /\ hashed' = [obj |-> o, objects |-> neo, digest |-> _hash_object(neo, o)]
    /\ UNCHANGED <<neo, uuid, nix_file, mode, _block_read_counter, _neo_map,
                   _signal_map, result, synced, sequential, writes, edits>>

-----------------------------------------------------------------------------
(* The life of an instance.  mode is "closed" once close() has set         *)
(* self.nix_file to None, and "failed" on an instance whose __init__      *)
(* raised before it opened the file, which has no attribute nix_file.     *)

\* close() that tested neither hasattr(self, "nix_file") nor self.nix_file:
\* on an instance with no open file it raises
CloseUnguarded(op) ==
    /\ IF Open
       THEN /\ mode' = "closed"
            /\ _block_read_counter' = None
       ELSE UNCHANGED <<mode, _block_read_counter>>
    /\ result' = [op |-> op,
                  status |-> IF Open THEN NoError ELSE "AttributeError",
                  args |-> [mode |-> mode,
                            raised |-> IF result.status = "None" THEN NoError
                                       ELSE result.status],
                  value |-> None]
    /\ UNCHANGED <<neo, uuid, nix_file, _neo_map, _signal_map, synced,
                   sequential, hashed, writes, edits>>

\* close(), called as op: the file is closed and self.nix_file and
\* self._block_read_counter set to None when the instance has a file open;
\* nothing is done otherwise.  args.raised is what the call before raised.
Close(op) ==
    /\ IF Open
       THEN /\ mode' = "closed"
            /\ _block_read_counter' = None
       ELSE UNCHANGED <<mode, _block_read_counter>>
    /\ result' = [op |-> op, status |-> NoError,
                  args |-> [mode |-> mode,
                            raised |-> IF result.status = "None" THEN NoError
                                       ELSE result.status],
                  value |-> None]
    /\ UNCHANGED <<neo, uuid, nix_file, _neo_map, _signal_map, synced,
                   sequential, hashed, writes, edits>>

close == Close("close")

\* __exit__(*args): the end of a with block, reached when its body returned
\* and when it raised (args.raised); a with block is entered on an instance
\* that was constructed
__exit__ == mode # "failed" /\ Close("__exit__")

\* __del__(), on any instance
__del__ == Close("__del__")

\* NixIO(filename, mode) once the instance before is closed: "ro" opens the
\* file, any mode but "ro", "rw" and "ow" raises ValueError before the file
\* is opened
__init__(m) ==
    /\ ~Open
    /\ IF m = "ro"
       THEN /\ mode' = "ro"
            /\ _block_read_counter' = 0
            /\ result' = [op |-> "__init__", status |-> NoError,
                          args |-> <<m>>, value |-> None]
       ELSE /\ mode' = "failed"
            /\ _block_read_counter' = None
            /\ result' = [op |-> "__init__", status |-> "ValueError",
                          args |-> <<m>>, value |-> None]
    /\ _neo_map' = [n \in {} |-> None]
    /\ _signal_map' = [n \in {} |-> <<>>]
    /\ sequential' = TRUE
    /\ UNCHANGED <<neo, uuid, nix_file, synced, hashed, writes, edits>>

RECURSIVE WriteAll(_, _, _)
\* for bl in neo_blocks: self.write_block(bl), from the state S the calls
\* before left; an exception ends the loop
WriteAll(S, neo_blocks, closed) ==
    LET Start == StartWrite(S.file, S.neo, S.uuid, S.sigmap)
        Left(W) ==
            [file |-> IF closed THEN S.file ELSE FileOf(W), neo |-> W.neo,
             uuid |-> W.uuid, sigmap |-> W.sigmap, err |-> W.err,
             written |-> S.written + 1]
    IN IF neo_blocks = <<>> \/ S.err # NoError THEN S
       ELSE WriteAll(Left(IF closed THEN WriteClosed(Start, Head(neo_blocks))
                          ELSE WriteBlock(Start, Head(neo_blocks))),
                     Tail(neo_blocks), closed)

\* write_all_blocks(neo_blocks)
write_all_blocks(neo_blocks) ==
    /\ mode \in {"ow", "closed"}
    /\ writes + Len(neo_blocks) <= MaxWrites
    /\ LET Left(S) ==
               /\ nix_file' = S.file
               /\ neo' = S.neo
               /\ uuid' = S.uuid
               /\ _signal_map' = S.sigmap
               /\ result' = [op |-> "write_all_blocks", status |-> S.err,
                             args |-> neo_blocks, value |-> None]
               /\ synced' = [b \in Blocks |->
                                IF b \in Range(neo_blocks) THEN S.err = NoError
                                ELSE synced[b]]
               /\ writes' = writes + S.written
       IN Left(WriteAll([file |-> nix_file, neo |-> neo, uuid |-> uuid,
                         sigmap |-> _signal_map, err |-> NoError,
                         written |-> 0],
                        neo_blocks, mode = "closed"))
    /\ UNCHANGED <<mode, _block_read_counter, _neo_map, sequential, hashed,
                   edits>>

-----------------------------------------------------------------------------
(* The specifications.                                                     *)

Selectors == {None} \cup {PyInt(i) : i \in 0..1}

\* the calls of read_block tried: those with at most one selector
Selected(index, nixname, neoname) ==
    \/ nixname = None /\ neoname = None
    \/ index = None /\ neoname = None
    \/ index = None /\ nixname = None

\* the objects _write_object is called on
WrittenObjects == {"asig1"}

\* the user's changes between the calls of a program that writes and reads
IOEdits ==
    {<<"blk1", "name", 1>>, <<"seg1", "analogsignals", 1>>,
     <<"st1", "left_sweep", 1>>, <<"blk1", "annotations", 3>>,
     <<"seg1", "annotations", 3>>, <<"asig1", "signal", 1>>,
     <<"asig1", "signal", 4>>}

NeoNames == {None, PyStr(<<"b">>)}

\* the reader has made no call yet
Fresh == mode = "ro" /\ result.op = "open"

\* a program that writes a file with one NixIO, the graph being edited
\* between the calls, and reads it with another, opened read-only, on which
\* it makes either successive read_block() calls or one other call
Next ==
    \/ \E block \in Blocks : write_block(block)
    \/ \E obj \in WrittenObjects : _write_object(obj)
    \/ \E e \in IOEdits : mode = "ow" /\ Edit(e[1], e[2], e[3])
    \/ \E b \in 1..2, j \in 1..(2 * MaxChannels + 4) :
           mode = "ow" /\ CorruptMetadata(b, j)
    \/ \E b \in 1..2, j \in 1..(2 * MaxChannels + 4) :
           mode = "ow" /\ RemoveArray(b, j)
    \/ Reopen
    \/ mode = "ro" /\ sequential /\ read_block(None, None, None)
    \/ \E index \in Selectors, nixname \in {None} \cup BlockNames,
          neoname \in NeoNames :
           /\ Fresh
           /\ Selected(index, nixname, neoname)
           /\ <<index, nixname, neoname>> # <<None, None, None>>
           /\ read_block(index, nixname, neoname)
    \/ Fresh /\ read_all_blocks("read_all_blocks")
    \/ Fresh /\ read_all_blocks("iter_blocks")
    \/ \E path \in PathsOfSignals \cup MissingSignalPaths :
           Fresh /\ _read_signal(path)
    \/ \E path \in PathsOfChannelIndexes \cup MissingChannelIndexPaths :
           Fresh /\ _read_channelindex(path)

Spec == Init /\ [][Next]_vars

\* a program that edits objects and hashes them
NextHash ==
    \/ \E o \in Objects, attr \in AttributeNames, way \in 1..2 :
           Edit(o, attr, way)
    \/ \E o \in Objects : HashObject(o)

SpecHash == Init /\ [][NextHash]_vars

\* the values a metadata property is given: up to MaxValues integers
MaxValues == 3
PropertyValues ==
    UNION {[1..n -> {PyInt(1), PyInt(2)}] : n \in 0..MaxValues}

\* section[key] = values and section.props[key].unit = unit, made with the
\* NIX library on the metadata of the block at position b of the file
SetProperty(b, key, values, unit) ==
    /\ edits < MaxEdits
    /\ b \in 1..Len(nix_file.blocks)
    /\ nix_file' = [nix_file EXCEPT
                       !.sections[nix_file.blocks[b].metadata].props =
                           (key :> [values |-> values, unit |-> unit]) @@ @]
    /\ result' = [op |-> "edit_file", status |-> NoError, args |-> <<b, key>>,
                  value |-> None]
    /\ edits' = edits + 1
    /\ synced' = [o \in Blocks |-> FALSE]
    /\ UNCHANGED <<neo, uuid, mode, _block_read_counter, _neo_map,
                   _signal_map, sequential, hashed, writes>>

\* self._nix_attr_to_neo(nix_obj), nix_obj the block at position b
ReadAttributes(b) ==
    /\ b \in 1..Len(nix_file.blocks)
    /\ result' = [op |-> "_nix_attr_to_neo", status |-> NoError,
                  args |-> <<b>>,
                  value |-> _nix_attr_to_neo(nix_file.sections,
                                             nix_file.blocks[b])]
    /\ UNCHANGED <<neo, uuid, nix_file, mode, _block_read_counter, _neo_map,
                   _signal_map, synced, sequential, hashed, writes, edits>>

\* a program that writes blocks, gives the metadata of one a property and
\* converts the attributes of a block
NextProps ==
    \/ \E block \in Blocks : write_block(block)
    \/ \E b \in 1..2, values \in PropertyValues, unit \in {"", "mV"} :
           SetProperty(b, "k", values, unit)
    \/ \E b \in 1..2 : ReadAttributes(b)

SpecProps == Init /\ [][NextProps]_vars

\* the leaves a segment of the graph may hold
LeafObjects == {"asig1", "isig1", "ev1", "ep1", "st1"}

\* the graph in which seg1 holds the leaves in first and seg2 those in
\* second, st1 with or without waveforms and left_sweep
SharingGraph(first, second, withchx, waveforms, left_sweep) ==
    LET In(set, o) == IF o \in set THEN <<o>> ELSE <<>>
        Holding(name, set) ==
            Segment(name, In(set, "asig1"), In(set, "isig1"), In(set, "ev1"),
                    In(set, "ep1"), In(set, "st1"))
    IN [InitialGraph(2, FALSE, withchx, PyStr(<<"b">>)) EXCEPT
           !["seg1"] = Holding(PyStr(<<"a">>), first),
           !["seg2"] = Holding(None, second),
           !["st1"].waveforms = IF waveforms THEN QArray(<<3, 4>>, "mV") ELSE None,
           !["st1"].left_sweep = IF left_sweep THEN Quantity(2, "ms") ELSE None]

\* the state after construction, for a graph with shared leaves
InitSharing ==
    /\ \E first \in {LeafObjects, LeafObjects \ {"asig1"},
                     LeafObjects \ {"st1"}},
          second \in SUBSET LeafObjects, withchx \in BOOLEAN,
          waveforms \in BOOLEAN, left_sweep \in BOOLEAN :
           neo = SharingGraph(first, second, withchx, waveforms, left_sweep)
    /\ uuid = 0
    /\ nix_file = [blocks |-> <<>>, sections |-> [i \in {} |-> None], next |-> 1]
    /\ mode = "ow"
    /\ _block_read_counter = 0
    /\ _neo_map = [n \in {} |-> None]
    /\ _signal_map = [n \in {} |-> <<>>]
    /\ result = NoResult
    /\ synced = [b \in Blocks |-> FALSE]
    /\ sequential = TRUE
    /\ hashed = NoHash
    /\ writes = 0
    /\ edits = 0

\* a program that writes Blocks whose segments share leaves and reads the
\* file with another NixIO
NextSharing ==
    \/ \E block \in Blocks : write_block(block)
    \/ Reopen
    \/ mode = "ro" /\ sequential /\ read_block(None, None, None)

SpecSharing == InitSharing /\ [][NextSharing]_vars

\* _find_lazy_loaded(obj): it iterates self._lazy_loaded, an attribute that
\* only close() sets, to None
_find_lazy_loaded(obj) ==
    IF mode = "closed" THEN "TypeError"
    ELSE IF "_lazy_loaded" \notin InstanceAttributes THEN "AttributeError"
    ELSE NoError

\* _update_maps(obj, lazy): its first statement is
\* self._find_lazy_loaded(obj)
_update_maps(obj, lazy) ==
    /\ result' = [op |-> "_update_maps", status |-> _find_lazy_loaded(obj),
                  args |-> <<obj, lazy>>, value |-> None]
    /\ UNCHANGED <<neo, uuid, nix_file, mode, _block_read_counter, _neo_map,
                   _signal_map, synced, sequential, hashed, writes, edits>>

\* the lists of Blocks write_all_blocks is called with
BlockLists == {<<>>, <<"blk1">>, <<"blk1", "blk2">>}

\* a program that makes any calls on an instance, closes it, leaves the with
\* block it made it for or drops it, and makes another
NextLife ==
    \/ \E block \in Blocks : write_block(block)
    \/ \E neo_blocks \in BlockLists : write_all_blocks(neo_blocks)
    \/ \E index \in Selectors :
           mode # "failed" /\ read_block(index, None, None)
    \/ mode # "failed" /\ read_all_blocks("read_all_blocks")
    \/ mode # "failed" /\ read_all_blocks("iter_blocks")
    \/ close
    \/ __exit__
    \/ __del__
    \/ \E m \in {"ro", "xx"} : __init__(m)
    \/ \E obj \in WrittenObjects, lazy \in BOOLEAN : _update_maps(obj, lazy)

SpecLife == Init /\ [][NextLife]_vars

-----------------------------------------------------------------------------
(* Properties.                                                             *)

Named(o) == "nix_name" \in DOMAIN neo[o].annotations

\* the last call was a read_block that returned the block written from the
\* Block b, which has not been modified since, nor has the file
ReadBack(b) ==
    /\ result.op = "read_block"
    /\ result.status = NoError
    /\ synced[b]
    /\ Named(b)
    /\ result.value.annotations["nix_name"] = neo[b].annotations["nix_name"]

\* the identifiers of objects read, and of objects of the graph
ReadNames(objs) == [i \in 1..Len(objs) |-> objs[i].annotations["nix_name"]]

GraphNames(ids) == [i \in 1..Len(ids) |-> neo[ids[i]].annotations["nix_name"]]

\* a segment read holds the children of the segment seg of the graph
SameChildren(read, seg) ==
    \A attr \in ChildAttributes("Segment") :
        Range(ReadNames(read[attr])) = Range(GraphNames(neo[seg][attr]))

\* a channel index read holds the units of the channel index chx of the graph
SameUnits(read, chx) ==
    Range(ReadNames(read.units)) = Range(GraphNames(neo[chx].units))

\* C1: a Block read back after write_block has the segments of the Block
\* written, in order, each with the same signals, events, epochs and spike
\* trains, and the same channel indexes, each with the same units.
C1_RoundTripEntities ==
    \A b \in Blocks :
        ReadBack(b) =>
            /\ ReadNames(result.value.segments) = GraphNames(neo[b].segments)
            /\ \A i \in 1..Len(neo[b].segments) :
                   SameChildren(result.value.segments[i], neo[b].segments[i])
            /\ ReadNames(result.value.channel_indexes)
                   = GraphNames(neo[b].channel_indexes)
            /\ \A i \in 1..Len(neo[b].channel_indexes) :
                   SameUnits(result.value.channel_indexes[i],
                             neo[b].channel_indexes[i])

\* the part of C1 the code keeps: the segments and their children
RoundTripSegments ==
    \A b \in Blocks :
        ReadBack(b) =>
            /\ ReadNames(result.value.segments) = GraphNames(neo[b].segments)
            /\ \A i \in 1..Len(neo[b].segments) :
                   SameChildren(result.value.segments[i], neo[b].segments[i])

\* the analog signals of the graph that are read back in the last result
ReadBackSignals(b) ==
    {<<o, i, j>> \in Objects \X (1..Len(result.value.segments)) \X (1..2) :
         /\ neo[o].kind = "AnalogSignal"
         /\ Named(o)
         /\ j <= Len(result.value.segments[i].analogsignals)
         /\ result.value.segments[i].analogsignals[j].annotations["nix_name"]
                = neo[o].annotations["nix_name"]}

\* C6: an analog signal read back has its channels in the order written,
\* whatever their number, and the start time written.
C6_ChannelOrder ==
    \A b \in Blocks :
        ReadBack(b) =>
            \A s \in ReadBackSignals(b) :
                LET read == result.value.segments[s[2]].analogsignals[s[3]]
                IN /\ read.signal = neo[s[1]].signal
                   /\ read.t_start = neo[s[1]].t_start

\* the part of C6 the code keeps: the start time, and the channel order of
\* signals of at most ten channels
ChannelOrderUpToTen ==
    \A b \in Blocks :
        ReadBack(b) =>
            \A s \in ReadBackSignals(b) :
                LET read == result.value.segments[s[2]].analogsignals[s[3]]
                IN /\ read.t_start = neo[s[1]].t_start
                   /\ Len(neo[s[1]].signal[1]) <= 10
                          => read.signal = neo[s[1]].signal

\* the segments of Block b a signal is attached to
SegmentsOf(b, sig) ==
    {i \in 1..Len(neo[b].segments) :
         sig \in Range(neo[neo[b].segments[i]].analogsignals)}

\* C8: a ChannelIndex that references a signal attached to two segments is
\* read back with that signal once among its members, the signal's
\* channel_index being that ChannelIndex.
C8_MembersOnce ==
    \A b \in Blocks :
        ReadBack(b) =>
            \A x \in 1..Len(neo[b].channel_indexes) :
                \A sig \in Range(neo[neo[b].channel_indexes[x]].analogsignals) :
                    Cardinality(SegmentsOf(b, sig)) = 2 =>
                        /\ x <= Len(result.value.channel_indexes)
                        /\ Cardinality(
                               {m \in 1..Len(result.value.channel_indexes[x]
                                                 .analogsignals) :
                                    result.value.channel_indexes[x]
                                        .analogsignals[m].annotations["nix_name"]
                                    = neo[sig].annotations["nix_name"]}) = 1
                        /\ \A s \in ReadBackSignals(b) :
                               s[1] = sig =>
                                   result.value.segments[s[2]].analogsignals[s[3]]
                                       .channel_index
                                   = neo[neo[b].channel_indexes[x]]
                                         .annotations["nix_name"]

\* a signal linked in a group of the block is corrupt
CorruptLinked(blk) ==
    \E g \in 1..Len(blk.groups) :
        \E n \in Range(blk.groups[g].data_arrays) : Corrupt(blk, n.base)

\* the blocks of the file the last call converted
BlocksRead ==
    CASE result.op = "read_block" /\ result.status = NoError ->
           {blk \in Range(nix_file.blocks) :
                blk.name = result.value.annotations["nix_name"]}
      [] result.op \in {"read_all_blocks", "iter_blocks"}
         /\ result.status = NoError -> Range(nix_file.blocks)
      [] OTHER -> {}

\* C7: a read that reconstructs a signal one of whose arrays references
\* another metadata section than its siblings raises an error: no call
\* returns a block that holds such a signal.
C7_CorruptionRaises ==
    /\ \A blk \in BlocksRead : ~CorruptLinked(blk)
    /\ result.op = "_read_signal" => result.status # NoError

\* the last call was read_block() without a selector, as were all the calls
\* of the reader before it
SequentialCall ==
    /\ result.op = "read_block"
    /\ result.args.index = None
    /\ result.args.nixname = None
    /\ result.args.neoname = None
    /\ sequential

\* C9: the k-th read_block() returns the k-th block of the file, and a
\* read_block() after the last block returns None without raising.
C9_SequentialRead ==
    SequentialCall =>
        IF result.args.counter < result.args.nblocks
        THEN /\ result.status = NoError
             /\ result.value.annotations["nix_name"]
                    = nix_file.blocks[result.args.counter + 1].name
        ELSE result.status = "None"

\* the part of C9 the code keeps: the blocks come in order
SequentialOrder ==
    SequentialCall /\ result.args.counter < result.args.nblocks =>
        /\ result.status = NoError
        /\ result.value.annotations["nix_name"]
               = nix_file.blocks[result.args.counter + 1].name

\* C10: read_block(index=i) returns the block at position i, and
\* read_block(nixname=n) the block named n, and read_block(neoname=m) a
\* block of Neo name m, index going before nixname and nixname before
\* neoname.
C10_BlockSelection ==
    result.op = "read_block" /\ result.status = NoError =>
        LET index == result.args.index
            nixname == result.args.nixname
            neoname == result.args.neoname
            name == result.value.annotations["nix_name"]
        IN /\ index # None => name = nix_file.blocks[index.i + 1].name
           /\ index = None /\ nixname # None => name = nixname
           /\ index = None /\ nixname = None /\ neoname # None =>
                  result.value.name = neoname

\* the ids of the data arrays of the block of a file written from Block b
DataArrayIds(file, b) ==
    UNION {{blk.data_arrays[i].id : i \in 1..Len(blk.data_arrays)} :
               blk \in {x \in Range(file.blocks) :
                            x.name = neo[b].annotations["nix_name"]}}

\* the step is a write_block(b) on a Block that was written and has not been
\* modified since
Rewrite(b) ==
    /\ synced[b]
    /\ writes' = writes + 1
    /\ result'.op = "write_block"
    /\ result'.args = <<b>>

\* C2: a second write_block of an unmodified Block deletes and creates no
\* data array and leaves the content hash of every object as it was.
C2_IdempotentRewrite ==
    [][\A b \in Blocks :
           Rewrite(b) =>
               /\ result'.status = NoError
               /\ DataArrayIds(nix_file', b) = DataArrayIds(nix_file, b)
               /\ \A o \in Objects :
                      _hash_object(neo', o) = _hash_object(neo, o)]_vars

\* the part of C2 the code keeps: the hashes
RewriteKeepsHashes ==
    [][\A b \in Blocks :
           Rewrite(b) =>
               /\ result'.status = NoError
               /\ \A o \in Objects :
                      _hash_object(neo', o) = _hash_object(neo, o)]_vars

\* the objects a write_block of Block b writes
Written(b) ==
    LET segs == Range(neo[b].segments)
        chxs == Range(neo[b].channel_indexes)
    IN {b} \cup segs \cup chxs
       \cup UNION {UNION {Range(neo[sg][attr]) :
                              attr \in ChildAttributes("Segment")} : sg \in segs}
       \cup UNION {Range(neo[x].units) : x \in chxs}

\* the objects that get their identifier in the step
NewlyNamed ==
    {o \in Objects : ~Named(o) /\ "nix_name" \in DOMAIN neo'[o].annotations}

\* C3: an object written without nix_name gets a new identifier; an
\* object that has one keeps it in every step, and no identifier is
\* generated for it again.
C3_StableIdentity ==
    [][/\ \A o \in Objects :
              Named(o) =>
                  /\ "nix_name" \in DOMAIN neo'[o].annotations
                  /\ neo'[o].annotations["nix_name"]
                         = neo[o].annotations["nix_name"]
       /\ uuid' = uuid + Cardinality(NewlyNamed)
       /\ \A o \in NewlyNamed :
              \A p \in Objects :
                  (p # o /\ "nix_name" \in DOMAIN neo'[p].annotations) =>
                      neo'[p].annotations["nix_name"]
                          # neo'[o].annotations["nix_name"]
       /\ \A b \in Blocks :
              (result'.op = "write_block" /\ writes' = writes + 1
               /\ result'.args = <<b>> /\ result'.status = NoError) =>
                  \A o \in Written(b) :
                      "nix_name" \in DOMAIN neo'[o].annotations]_vars

\* a Block has been written a second time, all its objects having their
\* identifiers from the first write
C3_Rewritten ==
    /\ writes = 2
    /\ result.op = "write_block"
    /\ result.status = NoError
    /\ Len(nix_file.blocks) = 1
    /\ uuid > 0

\* the object hashed last has the own attributes it had when it was hashed
OwnUnchanged ==
    \A k \in OwnAttributes(neo[hashed.obj]) :
        hashed.objects[hashed.obj][k] = neo[hashed.obj][k]

\* C4: the hash of an object does not depend on its children: hashed again
\* with the same own attributes, whatever became of its children, the object
\* has the same hash.
C4_HashIgnoresChildren ==
    (hashed.obj # "none" /\ OwnUnchanged) =>
        _hash_object(neo, hashed.obj) = hashed.digest

\* an object was hashed, and a child of it has been modified since
C4_ChildModified ==
    /\ hashed.obj # "none"
    /\ OwnUnchanged
    /\ \E c \in Range(ChildList(neo[hashed.obj])) :
           \E k \in OwnAttributes(neo[c]) : hashed.objects[c][k] # neo[c][k]

\* the object hashed last differs in one own attribute, by one modification,
\* from what it was when it was hashed
OneChange ==
    /\ hashed.obj # "none"
    /\ edits = 1
    /\ Cardinality({k \in OwnAttributes(neo[hashed.obj]) :
                        hashed.objects[hashed.obj][k] # neo[hashed.obj][k]}) = 1

\* C5: two objects that differ in one own attribute or one payload element
\* feed the digest different input.
C5_HashSensitive ==
    OneChange => _hash_object(neo, hashed.obj) # hashed.digest

\* the part of C5 the code keeps: every single change but that of a channel
\* id, and that of None into the string "None"
HashSensitiveButIds ==
    (/\ OneChange
     /\ neo[hashed.obj].kind = "ChannelIndex" =>
            hashed.objects[hashed.obj].channel_ids = neo[hashed.obj].channel_ids
     /\ \A k \in {"name", "description"} :
            hashed.objects[hashed.obj][k] = None =>
                neo[hashed.obj][k] # PyStr(<<"N", "o", "n", "e">>))
        => _hash_object(neo, hashed.obj) # hashed.digest

\* the state of the instance and of the file, but for the result of the call
Kept == <<neo, uuid, nix_file, mode, _block_read_counter, _neo_map,
          _signal_map, synced, sequential, hashed, writes, edits>>

\* C11: close(), the end of a with block (after a body that returned and
\* after one that raised) and __del__ leave the instance without an open
\* file and raise nothing; on an instance that has no file open (closed
\* before, or never opened because __init__ raised) they change nothing.
C11_ScopedRelease ==
    [][result'.op \in {"close", "__exit__", "__del__"} =>
           /\ ~Open'
           /\ result'.status = NoError
           /\ nix_file' = nix_file
           /\ ~Open => UNCHANGED Kept]_vars

\* a with block was left by an exception of its body, its file open
C11_ExitAfterRaise ==
    /\ result.op = "__exit__"
    /\ result.args.raised # NoError
    /\ result.args.mode \in {"ow", "ro"}
    /\ mode = "closed"

\* the calls that read or write the file
StoreCalls ==
    {"read_block", "read_all_blocks", "iter_blocks", "write_block",
     "write_all_blocks"}

\* C12: once close() has run, every read or write call on the instance
\* raises and leaves the file as it was.
C12_UseAfterClose ==
    [][(mode = "closed" /\ result'.op \in StoreCalls) =>
           /\ result'.status \notin {NoError, "None"}
           /\ nix_file' = nix_file]_vars

\* the part of C12 the code keeps: the file is never changed, and every call
\* but write_all_blocks of no Block raises
UseAfterCloseButEmpty ==
    [][(mode = "closed" /\ result'.op \in StoreCalls) =>
           /\ nix_file' = nix_file
           /\ result'.status = "AttributeError"
                  \/ (result'.op = "write_all_blocks" /\ result'.args = <<>>)]_vars

\* the block of the file the last write_block wrote
WrittenBlock == nix_file.blocks[Len(nix_file.blocks)]

\* the data arrays a multi tag uses: its positions, extents and features
TagArrays(mt) == ({mt.positions, mt.extents} \ {None}) \cup Range(mt.features)

\* the groups of a block that hold a node: those that link it, and, for a
\* data array, those that link a multi tag using it
Holders(blk, name) ==
    {g \in Range(blk.groups) :
        \/ name \in Range(g.data_arrays) \cup Range(g.multi_tags)
        \/ \E mt \in Range(blk.multi_tags) :
               mt.name \in Range(g.multi_tags) /\ name \in TagArrays(mt)}

\* C13: in the file a write_block leaves, the nodes having been numbered in
\* the order of their creation, the block was created before its groups and
\* sources, every data array and multi tag after a group that holds it,
\* every unit after the source of its channel index, and no node after
\* _create_source_links was called, which a write_block that raised nothing
\* has called.
C13_WriteOrder ==
    result.op = "write_block" =>
        /\ \A g \in Range(WrittenBlock.groups) : WrittenBlock.id < g.id
        /\ \A n \in Range(WrittenBlock.data_arrays)
                        \cup Range(WrittenBlock.multi_tags) :
               \E g \in Holders(WrittenBlock, n.name) : g.id < n.id
        /\ \A chx \in Range(WrittenBlock.sources) :
               /\ WrittenBlock.id < chx.id
               /\ \A unit \in Range(chx.sources) : chx.id < unit.id
        /\ result.linked \in {0, nix_file.next}
        /\ result.status = NoError => result.linked = nix_file.next

\* a Block with a signal shared by its two segments and with a channel index
\* holding a unit has been written
C13_SharedAndLinked ==
    /\ result.op = "write_block"
    /\ result.status = NoError
    /\ \E chx \in Range(WrittenBlock.sources) :
           \E unit \in Range(chx.sources) : unit.type = "neo.unit"
    /\ \E n \in Range(WrittenBlock.data_arrays) :
           Cardinality({g \in Range(WrittenBlock.groups) :
                            n.name \in Range(g.data_arrays)}) = 2

\* the identifiers of the objects among objs that have one
NixNames(objs) ==
    {neo[o].annotations["nix_name"] : o \in {x \in Range(objs) : Named(x)}}

\* the sources the signal called base is a member of: those of the channel
\* indexes of the Block b that hold it
SignalSources(b, base) ==
    NixNames(SeqFilter(neo[b].channel_indexes,
                       {chx \in Range(neo[b].channel_indexes) :
                            base \in NixNames(
                                neo[chx].analogsignals
                                \o neo[chx].irregularlysampledsignals)}))

\* the sources the spike train called name is a member of: those of the
\* units of the Block b that hold it, and of their channel indexes
SpikeTrainSources(b, name) ==
    UNION {UNION {NixNames(<<chx, unit>>) :
                      unit \in {u \in Range(neo[chx].units) :
                                    name \in NixNames(neo[u].spiketrains)}} :
               chx \in Range(neo[b].channel_indexes)}

\* C14: after a write_block that returned, the Block as it was written, every per-channel data array of a
\* signal has among its sources the sources of the channel indexes holding the
\* signal, every multi tag of a spike train those of the units holding it
\* and of their channel indexes, and no node any other source: a leaf that
\* no channel index or unit holds has none.
C14_SourceLinks ==
    (/\ result.op = "write_block"
     /\ result.status = NoError
     /\ synced[result.args[1]]) =>
        /\ \A n \in Range(WrittenBlock.data_arrays) :
               Range(n.sources) = IF n.type \in SignalTypes
                                  THEN SignalSources(result.args[1], n.name.base)
                                  ELSE {}
        /\ \A mt \in Range(WrittenBlock.multi_tags) :
               Range(mt.sources) = SpikeTrainSources(result.args[1], mt.name)

\* a Block was written in which a signal and a spike train are members of a
\* channel index and its unit, and another signal is a member of none
C14_MembersAndOthers ==
    /\ result.op = "write_block"
    /\ result.status = NoError
    /\ synced[result.args[1]]
    /\ \E n \in Range(WrittenBlock.data_arrays) :
           n.type \in SignalTypes /\ Len(n.sources) = 1
    /\ \E n \in Range(WrittenBlock.data_arrays) :
           n.type \in SignalTypes /\ n.sources = <<>>
    /\ \E mt \in Range(WrittenBlock.multi_tags) : Len(mt.sources) = 2

\* the leaves of a segment: its signals, events, epochs and spike trains
LeavesOf(seg) ==
    neo[seg].analogsignals \o neo[seg].irregularlysampledsignals
    \o neo[seg].events \o neo[seg].epochs \o neo[seg].spiketrains

\* the identifiers of the entities of the Block b as it is now
EntityNames(b) ==
    NixNames(<<b>> \o neo[b].segments \o neo[b].channel_indexes)
    \cup UNION {NixNames(LeavesOf(seg)) : seg \in Range(neo[b].segments)}
    \cup UNION {NixNames(neo[chx].units) :
                    chx \in Range(neo[b].channel_indexes)}

\* the entity a node or section belongs to, by its name: "<identifier>" or
\* "<identifier>.<suffix>"
Owner(name) == IF "base" \in DOMAIN name THEN name.base ELSE name

\* the sections at the top of the file
TopSections == {i \in DOMAIN nix_file.sections : nix_file.sections[i].parent = 0}

\* a sequence of names, the i-th that of the i-th object
NameSeq(objs) == [i \in 1..Len(objs) |-> neo[objs[i]].annotations["nix_name"]]

SignalArraysOf(base) ==
    {n \in Range(WrittenBlock.data_arrays) :
         n.type \in SignalTypes /\ n.name.base = base}

\* the signals the Block b holds in its segments
SignalsOf(b) ==
    UNION {Range(neo[seg].analogsignals \o neo[seg].irregularlysampledsignals) :
               seg \in Range(neo[b].segments)}

\* C16: after a write_block, the per-channel data arrays of every signal of
\* the block reference one metadata section, a section of the file, and are
\* named "<identifier>.0", "<identifier>.1", ... without a gap; when the
\* call returned there are as many as the signal has channels.
C16_SharedMetadata ==
    result.op = "write_block" =>
        /\ \A n \in {m \in Range(WrittenBlock.data_arrays) :
                         m.type \in SignalTypes} :
               /\ n.metadata \in DOMAIN nix_file.sections
               /\ \A m \in SignalArraysOf(n.name.base) : m.metadata = n.metadata
               /\ {m.name.suffix : m \in SignalArraysOf(n.name.base)}
                      = {Digits(i) :
                             i \in 0..(Cardinality(SignalArraysOf(n.name.base)) - 1)}
        /\ (result.status = NoError /\ synced[result.args[1]]) =>
               \A sig \in SignalsOf(result.args[1]) :
                   Cardinality(SignalArraysOf(neo[sig].annotations["nix_name"]))
                       = Len(neo[sig].signal[1])

\* a signal of more than ten channels has been written
C16_ManyChannels ==
    /\ result.op = "write_block"
    /\ result.status = NoError
    /\ synced[result.args[1]]
    /\ \E sig \in SignalsOf(result.args[1]) : Len(neo[sig].signal[1]) > 10

\* a value _write_property does not support: a container one of whose items
\* is itself a container
Nested(v) ==
    v.t = "list" /\ \E i \in 1..Len(v.items) : v.items[i].t \in {"list", "str", "qarray"}

\* the graph without its unsupported annotations
Supported(objects) ==
    [o \in DOMAIN objects |->
        [objects[o] EXCEPT !.annotations =
            [k \in {j \in DOMAIN @ : ~Nested(@[j])} |-> @[k]]]]

\* the objects write_block writes for the Block b of the graph objects
ObjectsOf(objects, b) ==
    {b} \cup Range(objects[b].segments) \cup Range(objects[b].channel_indexes)
    \cup UNION {Range(objects[seg].analogsignals
                      \o objects[seg].irregularlysampledsignals
                      \o objects[seg].events \o objects[seg].epochs
                      \o objects[seg].spiketrains) :
                    seg \in Range(objects[b].segments)}
    \cup UNION {Range(objects[chx].units) :
                    chx \in Range(objects[b].channel_indexes)}

\* the unsupported annotations of the Block b and its objects: <<object, key>>
Dropped(objects, b) ==
    {ok \in ObjectsOf(objects, b) \X Range(AnnotationKeys) :
        /\ ok[2] \in DOMAIN objects[ok[1]].annotations
        /\ Nested(objects[ok[1]].annotations[ok[2]])}

SectionsOf(o) ==
    {i \in DOMAIN nix_file.sections :
        Named(o) /\ nix_file.sections[i].name = neo[o].annotations["nix_name"]}

\* C18: after a write_block that returned, the section of an object whose
\* name is None has no neo_name property and that of an object whose name is
\* a string has that string; a Block read back has the name it was written
\* with, None included.
C18_NameNoneRoundTrip ==
    /\ (result.op = "write_block" /\ result.status = NoError
        /\ synced[result.args[1]]) =>
           \A o \in ObjectsOf(neo, result.args[1]) : \A i \in SectionsOf(o) :
               IF neo[o].name = None
               THEN "neo_name" \notin DOMAIN nix_file.sections[i].props
               ELSE /\ "neo_name" \in DOMAIN nix_file.sections[i].props
                    /\ nix_file.sections[i].props["neo_name"].values = <<neo[o].name>>
    /\ \A b \in Blocks : ReadBack(b) => result.value.name = neo[b].name

\* what the code does instead: every object is written with a neo_name
\* property, the empty string for the name None, and a Block is read back
\* with the empty string for the name None
NameNoneAsEmpty ==
    /\ (result.op = "write_block" /\ result.status = NoError
        /\ synced[result.args[1]]) =>
           \A o \in ObjectsOf(neo, result.args[1]) : \A i \in SectionsOf(o) :
               /\ "neo_name" \in DOMAIN nix_file.sections[i].props
               /\ nix_file.sections[i].props["neo_name"].values = <<NeoName(neo[o])>>
    /\ \A b \in Blocks : ReadBack(b) => result.value.name = NeoName(neo[b])

\* the step is a call _write_object(obj)
WriteObjectStep(obj) ==
    /\ result'.op = "_write_object"
    /\ result'.args = <<obj>>
    /\ writes' = writes + 1

\* the per-channel data of the signal called base as the file f holds it:
\* <<suffix, data>> for every array
StoredData(f, base) ==
    {<<n.name.suffix, n.data>> :
        n \in {m \in UNION {Range(blk.data_arrays) : blk \in Range(f.blocks)} :
                   m.type \in SignalTypes /\ m.name.base = base}}

\* the per-channel data of a signal: <<"i", data of channel i>>
ChannelData(sig) ==
    {<<Digits(i - 1), Transpose(sig.signal)[i]>> : i \in 1..Len(sig.signal[1])}

\* the sections of the file f named name
SectionsNamed(f, name) == {i \in DOMAIN f.sections : f.sections[i].name = name}

\* the object has its nodes in the file and the graph is as it was when a
\* Block holding it was written
Unchanged(obj) ==
    /\ Named(obj)
    /\ SectionsNamed(nix_file, neo[obj].annotations["nix_name"]) # {}
    /\ \E b \in Blocks : synced[b] /\ obj \in ObjectsOf(neo, b)

\* C19: _write_object on an object that is as it was written returns, and
\* leaves the file as it was: no node created or deleted, no attribute or
\* payload written.
C19_SkipOnUnchanged ==
    [][\A obj \in WrittenObjects :
           (WriteObjectStep(obj) /\ Unchanged(obj)) =>
               /\ result'.status = NoError
               /\ nix_file' = nix_file
               /\ neo' = neo
      ]_vars

\* what the code does instead, for every object: _write_object raises
\* AttributeError and the file is as it was
WriteObjectRaises ==
    [][\A obj \in WrittenObjects :
           WriteObjectStep(obj) =>
               /\ result'.status = "AttributeError"
               /\ nix_file' = nix_file
      ]_vars

\* the signal has its arrays in the file, which do not hold its data
Changed(obj) ==
    /\ neo[obj].kind \in {"AnalogSignal", "IrregularlySampledSignal"}
    /\ Named(obj)
    /\ StoredData(nix_file, neo[obj].annotations["nix_name"]) # {}
    /\ StoredData(nix_file, neo[obj].annotations["nix_name"]) # ChannelData(neo[obj])

\* C20: _write_object on a signal whose arrays are in the file and whose data
\* changed returns; afterwards the file holds one array for every channel
\* the signal has now, with the data of the channel, and the metadata
\* section the signal had.
C20_UpdateOnChanged ==
    [][\A obj \in WrittenObjects :
           (WriteObjectStep(obj) /\ Changed(obj)) =>
               LET name == neo[obj].annotations["nix_name"]
               IN /\ result'.status = NoError
                  /\ StoredData(nix_file', name) = ChannelData(neo[obj])
                  /\ SectionsNamed(nix_file', name) = SectionsNamed(nix_file, name)
      ]_vars

\* the step is a lookup of path by _read_channelindex, whose first statement
\* is self._get_object_at(path)
LookupStep(path) ==
    /\ result'.op = "_read_channelindex"
    /\ result'.args = path

\* the source node stored at the path "/<block>/channel_indexes/<name>"
StoredAt(path) ==
    {x \in UNION {Range(b.sources) : b \in {c \in Range(nix_file.blocks) :
                                               c.name = path[1]}} :
        x.name = path[3]}

\* C21: a lookup of a path of the file returns the node stored at the path,
\* which the path cache then maps the path to; the cache holds no entry that
\* maps a path to anything else.
C21_PathCacheCoherent ==
    [][\A path \in PathsOfChannelIndexes :
           LookupStep(path) =>
               /\ result'.status = NoError
               /\ _get_object_at(path).err = NoError
               /\ _get_object_at(path).obj \in StoredAt(path)
      ]_vars

\* what the code does instead: every lookup raises AttributeError, whatever
\* the path, and the file is as it was
LookupRaises ==
    [][(result'.op \in {"_read_channelindex", "_read_signal"}) =>
           /\ result'.status = "AttributeError"
           /\ nix_file' = nix_file
      ]_vars

\* the errors of a lookup that does not resolve: KeyError and IndexError,
\* the subclasses of Python's LookupError
LookupErrors == {"KeyError", "IndexError", "LookupError"}

\* C22: _read_signal and _read_channelindex called with a path whose final
\* name is in no container of the file raise a lookup error.
C22_LookupFailure ==
    [][\A path \in MissingSignalPaths \cup MissingChannelIndexPaths :
           (result'.op \in {"_read_signal", "_read_channelindex"}
            /\ result'.args = path) =>
               result'.status \in LookupErrors
      ]_vars

\* a signal linked in a group of the block has a gap in its arrays
GapLinked(blk) ==
    \E g \in 1..Len(blk.groups) :
        \E n \in Range(blk.groups[g].data_arrays) : Gap(blk, n.base)

\* C23: a read that reconstructs a signal whose arrays have a missing index
\* in the middle raises an error: no call returns a block that holds such a
\* signal, and _read_signal of its path raises.
C23_FailClosedOnGap ==
    /\ \A blk \in BlocksRead : ~GapLinked(blk)
    /\ (result.op = "_read_signal" /\ result.args \in PathsOfSignals) =>
           result.status # NoError

\* the properties of the metadata of the block the last call converted,
\* but those _nix_attr_to_neo converts further afterwards
PropsRead ==
    LET props == nix_file.sections[nix_file.blocks[result.args[1]].metadata].props
    IN [k \in (DOMAIN props) \ {"file_datetime"} |-> props[k]]

\* C24: _nix_attr_to_neo gives a property with a unit a quantity of that unit
\* and one without plain values: the single value of a property of one
\* value, and for none or for two or more a list of as many, in the order
\* stored.
C24_PropertyArity ==
    result.op = "_nix_attr_to_neo" =>
        \A k \in DOMAIN PropsRead :
            LET values == PropsRead[k].values
                unit == PropsRead[k].unit
                v == result.value[k]
            IN /\ k \in DOMAIN result.value
               /\ IF unit # ""
                  THEN /\ v.t \in {"quantity", "qarray"}
                       /\ v.units = unit
                       /\ IF Len(values) = 1
                          THEN v.t = "quantity" /\ v.mag = values[1].i
                          ELSE /\ v.t = "qarray"
                               /\ Len(v.mag) = Len(values)
                               /\ \A i \in 1..Len(values) : v.mag[i] = values[i].i
                  ELSE IF Len(values) = 1
                       THEN v = values[1]
                       ELSE /\ v.t = "list"
                            /\ Len(v.items) = Len(values)
                            /\ \A i \in 1..Len(values) : v.items[i] = values[i]

\* the attributes of a block were converted whose metadata has a property
\* of one value and a property of two values with a unit
C24_ListsAndScalars ==
    /\ result.op = "_nix_attr_to_neo"
    /\ "k" \in DOMAIN PropsRead
    /\ "a" \in DOMAIN PropsRead
    /\ Len(PropsRead["a"].values) = 1
    /\ Len(PropsRead["k"].values) = 2
    /\ PropsRead["k"].unit = "mV"
    /\ result.value["k"] = QArray(<<1, 2>>, "mV")
    /\ result.value["a"] = PyInt(1)

\* the step is a call write_block(b) on an open instance
WriteBlockStep(b) ==
    /\ result'.op = "write_block"
    /\ result'.args = <<b>>
    /\ writes' = writes + 1
    /\ mode = "ow"

\* the attributes of a segment that hold its leaves, in the order
\* _write_segment writes them
LeafAttributes ==
    <<"analogsignals", "irregularlysampledsignals", "events", "epochs",
      "spiketrains">>

\* the graph in which every leaf of the Block b is left only in the first
\* segment of b that holds it
FirstOnly(objects, b) ==
    LET segs == objects[b].segments
        All(seg) == UNION {Range(objects[seg][LeafAttributes[a]]) : a \in 1..5}
        Earlier(i) == UNION {All(segs[j]) : j \in 1..(i - 1)}
        InFirst(seg, i) ==
            [attr \in DOMAIN objects[seg] |->
                IF attr \in Range(LeafAttributes)
                THEN SeqFilter(objects[seg][attr],
                               Range(objects[seg][attr]) \ Earlier(i))
                ELSE objects[seg][attr]]
    IN [o \in DOMAIN objects |->
           IF o \in Range(segs)
           THEN InFirst(o, CHOOSE i \in 1..Len(segs) : segs[i] = o)
           ELSE objects[o]]

\* the names of the per-channel arrays of the signals sigs, in order
ArrayNames(objects, sigs) ==
    Flatten([i \in 1..Len(sigs) |->
                [k \in 1..Len(objects[sigs[i]].signal[1]) |->
                    DAName(objects[sigs[i]].annotations["nix_name"],
                           Digits(k - 1))]])

\* the names of the multi tags of the objects objs, in order
TagNames(objects, objs) ==
    [i \in 1..Len(objs) |-> objects[objs[i]].annotations["nix_name"]]

\* no two nodes of a container have one name
UniqueNames(nodes) ==
    \A i, j \in 1..Len(nodes) : nodes[i].name = nodes[j].name => i = j

\* C25: a write_block that returns leaves the data arrays, multi tags,
\* sections and sources it leaves for the same graph with every leaf in the
\* first of its segments only: the later occurrences create no node and
\* write nothing; no two nodes have one name, and the group of every
\* segment links the nodes of all its leaves.
C25_SharedLeafOnce ==
    [][\A b \in Blocks :
           (WriteBlockStep(b) /\ result'.status = NoError) =>
               LET blk == nix_file'.blocks[Len(nix_file'.blocks)]
                   First(V) ==
                       /\ blk.data_arrays = V.blk.data_arrays
                       /\ blk.multi_tags = V.blk.multi_tags
                       /\ blk.sources = V.blk.sources
                       /\ nix_file'.sections = V.sections
                   segs == neo[b].segments
               IN /\ First(WriteBlock(StartWrite(nix_file, FirstOnly(neo, b),
                                                  uuid, _signal_map), b))
                  /\ UniqueNames(blk.data_arrays)
                  /\ UniqueNames(blk.multi_tags)
                  /\ Len(blk.groups) = Len(segs)
                  /\ \A i \in 1..Len(segs) :
                         /\ blk.groups[i].data_arrays
                                = ArrayNames(neo', neo[segs[i]].analogsignals
                                    \o neo[segs[i]].irregularlysampledsignals)
                         /\ blk.groups[i].multi_tags
                                = TagNames(neo', neo[segs[i]].events
                                    \o neo[segs[i]].epochs
                                    \o neo[segs[i]].spiketrains)
      ]_vars

\* a Block was written whose two segments both hold the signal asig1, the
\* event ev1, the epoch ep1 and the spike train st1
C25_AllShared ==
    /\ result.op = "write_block"
    /\ result.status = NoError
    /\ result.args = <<"blk1">>
    /\ synced["blk1"]
    /\ \A seg \in {"seg1", "seg2"} :
           /\ neo[seg].analogsignals = <<"asig1">>
           /\ neo[seg].events = <<"ev1">>
           /\ neo[seg].epochs = <<"ep1">>
           /\ neo[seg].spiketrains = <<"st1">>
    /\ Len(WrittenBlock.groups) = 2
    /\ WrittenBlock.groups[1].multi_tags = WrittenBlock.groups[2].multi_tags
    /\ Len(WrittenBlock.multi_tags) = 3

\* the multi tag of the block written last by its name
WrittenTag(name) ==
    WrittenBlock.multi_tags[IndexOf(WrittenBlock.multi_tags, name)]

\* the signal data arrays the group g of the block written last links
SignalsLinked(g) ==
    {n \in Range(g.data_arrays) :
        DataArray(WrittenBlock, n).type \in SignalTypes}

\* C26: after a write_block that returned, every event and epoch multi tag
\* linked in a group references every signal data array linked in that
\* group.
C26_TagsReferenceSignals ==
    (result.op = "write_block" /\ result.status = NoError) =>
        \A g \in Range(WrittenBlock.groups) :
            \A t \in Range(g.multi_tags) :
                WrittenTag(t).type \in {"neo.event", "neo.epoch"} =>
                    SignalsLinked(g) \subseteq Range(WrittenTag(t).references)

\* the part of C26 the code keeps: the tags reference the signal arrays of
\* the first group that links them
FirstGroupReferenced ==
    (result.op = "write_block" /\ result.status = NoError) =>
        \A i \in 1..Len(WrittenBlock.groups) :
            \A t \in Range(WrittenBlock.groups[i].multi_tags) :
                (/\ WrittenTag(t).type \in {"neo.event", "neo.epoch"}
                 /\ \A j \in 1..(i - 1) :
                        t \notin Range(WrittenBlock.groups[j].multi_tags)) =>
                    Range(WrittenTag(t).references)
                        = SignalsLinked(WrittenBlock.groups[i])

\* C27: _update_maps returns, for a lazy and for a non-lazy read, having
\* brought the placeholder list up to date.
C27_PlaceholderTracking ==
    [][result'.op = "_update_maps" => result'.status = NoError]_vars

\* what the code does instead: _update_maps raises on every call, and
\* changes nothing
UpdateMapsRaises ==
    [][result'.op = "_update_maps" =>
           /\ result'.status \in {"AttributeError", "TypeError"}
           /\ UNCHANGED <<nix_file, _neo_map, _signal_map>>
      ]_vars

\* C28: after close() the Neo-object map and the signal map hold no entry,
\* and the counter of sequential reads is not that of the closed session.
C28_CloseResetsMaps ==
    mode = "closed" =>
        /\ DOMAIN _neo_map = {}
        /\ DOMAIN _signal_map = {}
        /\ _block_read_counter \in {None, 0}

\* the part of C28 the code keeps: the counter is reset
CloseResetsCounter == mode = "closed" => _block_read_counter = None

\* the spike trains the Block b holds in its segments
SpikeTrainsOf(b) ==
    UNION {Range(neo[seg].spiketrains) : seg \in Range(neo[b].segments)}

\* the sections of the waveform array of the spike train st in the file f
\* that have a left_sweep property
LeftSweepSections(f, st) ==
    {i \in DOMAIN f.sections :
        /\ f.sections[i].name
               = DAName(neo'[st].annotations["nix_name"], <<"waveforms">>)
        /\ "left_sweep" \in DOMAIN f.sections[i].props}

\* C29: write_block returns for a spike train with or without waveforms and
\* with or without left_sweep; the left_sweep property is written when there
\* is a waveform array, on its metadata, and not otherwise.
C29_OptionalLeftSweep ==
    [][\A b \in Blocks :
           WriteBlockStep(b) =>
               /\ result'.status # "UnboundLocalError"
               /\ result'.status = NoError =>
                      \A st \in SpikeTrainsOf(b) :
                          (LeftSweepSections(nix_file', st) # {})
                              <=> (/\ neo[st].waveforms # None
                                   /\ neo[st].left_sweep # None)
      ]_vars

\* the part of C29 the code keeps: a write_block that returns has written
\* left_sweep exactly for the spike trains that have waveforms and
\* left_sweep, and a spike train without left_sweep is written, with or
\* without waveforms
LeftSweepWithWaveforms ==
    [][\A b \in Blocks :
           WriteBlockStep(b) =>
               /\ result'.status = "UnboundLocalError" <=>
                      \E st \in SpikeTrainsOf(b) :
                          neo[st].waveforms = None /\ neo[st].left_sweep # None
               /\ result'.status = NoError =>
                      \A st \in SpikeTrainsOf(b) :
                          (LeftSweepSections(nix_file', st) # {})
                              <=> (/\ neo[st].waveforms # None
                                   /\ neo[st].left_sweep # None)
      ]_vars

\* the signals and spike trains the channel indexes of the Block b and their
\* units reference
Members(b) ==
    UNION {Range(neo[chx].analogsignals \o neo[chx].irregularlysampledsignals)
           \cup UNION {Range(neo[u].spiketrains) : u \in Range(neo[chx].units)} :
               chx \in Range(neo[b].channel_indexes)}

\* C30: _create_source_links finds every member of every ChannelIndex and
\* Unit of the Block: write_block raises no lookup error.
C30_MembersResolve ==
    [][\A b \in Blocks : WriteBlockStep(b) => result'.status \notin LookupErrors
      ]_vars

\* the part of C30 the code keeps: linking fails exactly when a member is in
\* no segment of the Block
MembersInSegments ==
    [][\A b \in Blocks :
           (WriteBlockStep(b) /\ result'.status # "UnboundLocalError") =>
               (result'.status \in LookupErrors
                    <=> ~(Members(b) \subseteq
                              UNION {Range(LeavesOf(seg)) :
                                         seg \in Range(neo[b].segments)}))
      ]_vars


====
